---- MODULE Spec2Model ----
(***************************************************************************)
(* Voice agent turn pipeline: the TurnSession / TurnManager state machine  *)
(* (voice/service/turn_manager.py), the signaling loop and the reply       *)
(* pipeline (app/api/webrtc.py).                                           *)
(*                                                                         *)
(* Time is counted in units of 100 ms.  Byte strings are abstracted to a   *)
(* record [id, len, magic]: an identity, a length and whether the first    *)
(* four bytes are the EBML magic 1A 45 DF A3.  The transcoder, the VAD     *)
(* model, the ASR model, the LLM endpoint and the TTS engine are external: *)
(* their results are inputs chosen nondeterministically.                   *)
(*                                                                         *)
(* One session_id is modelled.  A TurnSession object is created by every   *)
(* accept (TurnManager.start), so objects are named after the connection   *)
(* whose accept created them.                                              *)
(*                                                                         *)
(* Three specifications share the actions and differ in where they start:  *)
(* Spec (a started server, one client connection), SpecReconnect (a        *)
(* started server, a client that connects twice, possibly overlapping) and *)
(* SpecMidlife (ten turns into a conversation).                            *)
(*                                                                         *)
(* The handler of POST /api/scripted_chat (app/api/state.py) with its      *)
(* helpers (app/script.py, app/services/together_client.py and             *)
(* app/services/external_api_client.py) is a second machine over the       *)
(* variable chat.  A text is a sequence of pieces, so that the regular     *)
(* expressions are computed and not assumed.  SpecChat runs one request    *)
(* over every text the model can answer; SpecChatFair runs it over the     *)
(* texts made of tags, under the fairness that call_llm needs to end.      *)
(*                                                                         *)
(* POST /voice/frames (app/api/voice.py) runs push_chunk on that module's  *)
(* own TurnManager: a third machine over the variable post (SpecFrames,    *)
(* and SpecFramesFair when every request is handled to its end).           *)
(*                                                                         *)
(* The module globals that are created or cached on first use are the      *)
(* fields of the variable lib, each with the threads or calls that use it: *)
(* the HTTP and Together clients (SpecClients), the script config cached   *)
(* by modification time (SpecScript) and the ASR model registry (SpecAsr). *)
(***************************************************************************)
EXTENDS Integers, Sequences, FiniteSets, TLC

\* ------------------------------------------------------------- bounds
\* frames the client sends over one connection
MaxFrames == 5
\* frames the clients send when the client reconnects
ReconnectFrames == 3
\* frames the client sends from the middle of a long conversation on
MidlifeFrames == 3
\* the clock advances while it stays within this (units of 100 ms)
MaxClock == 11
\* calls each thread makes of a lazily initialised service
MaxCalls == 2
\* the modification times configs/script.json can have
MaxMtime == 3
\* the longest text of markers, words and white space the model answers (pieces)
MaxPieces == 6
\* chunks posted to /voice/frames
MaxPosts == 5

\* ------------------------------------------------- program constants
\* "< 0.3" seconds between conversions
ThrottleT == 3
\* "len(self.webm_buffer) < 500"
MinBufBytes == 500
\* "s.chunk_count % 4 == 0"
CheckEvery == 4
\* "time_since_last >= 0.5"
CheckT == 5
\* "(duration - s.last_duration) < 0.5"
MinNewAudio == 5
\* "data[:min(8192, len(data))]"
HeaderMax == 8192
\* min_silence_ms=500 at the signaling loop's call of push_chunk
LoopMinSilence == 5
\* "min_silence_ms: int = 1000", push_chunk's default
DefaultMinSilence == 10
\* "s.conversation_history[-20:]"
HistoryCap == 20
\* call_llm: max_retries, and retry_delay in seconds
MaxRetries == 2
RetryDelay == 1

\* ------------------------------------------------------------ inputs
Conns == {1, 2}
NoBytes == [id |-> 0, len |-> 0, magic |-> FALSE]
ChunkShapes == {[len |-> 300, magic |-> TRUE], [len |-> 2, magic |-> FALSE]}
Delays == {5}
Durations == {3, 10}
VadEnds == {-1, 2, 8}
Transcripts == {"", "hi"}
AsrModels == {"loaded", "unavailable"}
Replies == {"", "ok"}
FrameKinds == {"offer", "ping", "not_an_object", "bad_base64_chunk"}

\* what the transcoder and VAD can report for one conversion: the transcoder's
\* outcome, the decoded duration, the end of the last speech segment
Transcodes(durations, vads) ==
    {[out |-> "fail", dur |-> 0, vad |-> -1]}
    \cup {t \in [out : {"ok", "ok_noarray"}, dur : durations, vad : vads] :
            t.vad <= t.dur}

\* the environment of a run: the connections the client opens, the frames it
\* sends and what the external components can answer
OneConnection ==
    [conns |-> {1}, frames |-> MaxFrames, shapes |-> ChunkShapes,
     kinds |-> FrameKinds, transcodes |-> Transcodes(Durations, VadEnds),
     texts |-> "all", delays |-> Delays]
Reconnecting ==
    [conns |-> Conns, frames |-> ReconnectFrames,
     shapes |-> {[len |-> 300, magic |-> TRUE]}, kinds |-> {"offer"},
     transcodes |-> Transcodes({10}, {-1, 2}), texts |-> "all",
     delays |-> Delays]
Midlife ==
    [conns |-> Conns, frames |-> MidlifeFrames,
     shapes |-> {[len |-> 300, magic |-> TRUE]}, kinds |-> {"ping"},
     transcodes |-> Transcodes({10}, {-1, 2}), texts |-> "all",
     delays |-> Delays]
\* the model answers with texts made of the fragments only
ShortAnswers == [OneConnection EXCEPT !.texts = "fragments"]
\* a client of POST /voice/frames: its chunks (one longer than the header
\* that is kept), what the transcoder and VAD answer, and its pace
FramesClient ==
    [conns |-> {}, frames |-> MaxPosts,
     shapes |-> {[len |-> 9000, magic |-> TRUE], [len |-> 2, magic |-> FALSE]},
     kinds |-> {}, transcodes |-> Transcodes({3, 10, 15}, {-1, 2}),
     texts |-> "fragments", delays |-> {2, 3}]

Min(a, b) == IF a < b THEN a ELSE b
Max(a, b) == IF a > b THEN a ELSE b

RECURSIVE BufLen(_)
BufLen(buf) == IF buf = <<>> THEN 0 ELSE Head(buf).len + BufLen(Tail(buf))

\* the last n elements of a sequence: Python's seq[-n:]
LastN(seq, n) ==
    IF Len(seq) <= n THEN seq ELSE SubSeq(seq, Len(seq) - n + 1, Len(seq))

\* ------------------------------------------------------- TurnSession
\* TurnSession.__init__
NewSession(now) ==
    [segment_index |-> 0, finalized |-> FALSE, transcript |-> "None",
     chunk_count |-> 0, last_duration |-> 0, last_conversion_time |-> 0,
     segment_start_time |-> now, conversion_lock |-> FALSE,
     processing_active |-> FALSE, conversation_history |-> <<>>,
     turn_number |-> 0, webm_buffer |-> <<>>, webm_header |-> NoBytes,
     wav_bytes |-> -1, wav_audio |-> -1]

\* an append_chunk that takes the header of every chunk that has one
append_chunk_recapturing(s, data) ==
    LET hdr == IF data.len >= 4 /\ data.magic
               THEN [data EXCEPT !.len = Min(HeaderMax, data.len)]
               ELSE s.webm_header
    IN [s EXCEPT !.webm_header = hdr,
                 !.webm_buffer = Append(@, data),
                 !.chunk_count = @ + 1]

\* TurnSession.append_chunk
append_chunk(s, data) ==
    LET hdr == IF s.webm_header = NoBytes /\ data.len >= 4 /\ data.magic
               THEN [data EXCEPT !.len = Min(HeaderMax, data.len)]
               ELSE s.webm_header
    IN [s EXCEPT !.webm_header = hdr,
                 !.webm_buffer = Append(@, data),
                 !.chunk_count = @ + 1]

\* an advance_segment that forgets the captured header with the buffer
advance_segment_dropping_header(s, now) ==
    [s EXCEPT !.segment_index = @ + 1,
              !.finalized = FALSE,
              !.transcript = "None",
              !.chunk_count = 0,
              !.last_duration = 0,
              !.last_conversion_time = 0,
              !.segment_start_time = now,
              !.webm_buffer = <<>>,
              !.webm_header = NoBytes,
              !.wav_bytes = -1,
              !.wav_audio = -1]

\* an advance_segment that skips a segment number
advance_segment_by_two(s, now) ==
    [s EXCEPT !.segment_index = @ + 2,
              !.finalized = FALSE,
              !.transcript = "None",
              !.chunk_count = 0,
              !.last_duration = 0,
              !.last_conversion_time = 0,
              !.segment_start_time = now,
              !.webm_buffer = <<>>,
              !.wav_bytes = -1,
              !.wav_audio = -1]

\* TurnSession.advance_segment, run with conversion_lock acquired
advance_segment(s, now) ==
    [s EXCEPT !.segment_index = @ + 1,
              !.finalized = FALSE,
              !.transcript = "None",
              !.chunk_count = 0,
              !.last_duration = 0,
              !.last_conversion_time = 0,
              !.segment_start_time = now,
              !.webm_buffer = <<>>,
              !.wav_bytes = -1,
              !.wav_audio = -1]

\* the bytes convert_to_wav_memory feeds the transcoder: the stored header is
\* prepended unless the buffer already starts with it
webm_data(s) ==
    IF s.webm_header # NoBytes
       /\ (s.webm_buffer = <<>> \/ Head(s.webm_buffer).id # s.webm_header.id)
    THEN <<s.webm_header>> \o s.webm_buffer
    ELSE s.webm_buffer

\* ----------------------------------------------- push_chunk results
Result(fin, txt, st) ==
    [ok |-> TRUE, finalized |-> fin, transcript |-> txt, state |-> st]
NoResult ==
    [ok |-> FALSE, finalized |-> FALSE, transcript |-> "None", state |-> "-"]

\* -------------------------------------------------------- push_chunk
\* A call of TurnManager.push_chunk runs in a worker thread, in up to four
\* steps: PushEnter (up to the start of the transcoder), PushTranscoded (the
\* transcoder's result, VAD, the silence decision), PushAsr (transcription and
\* the result) and PushAdvance (advance_segment and the return).  Each
\* operator returns the session, the call's next position, its result and the
\* external calls it made ("no_segments" with "vad": VAD found no speech).
Step(s, pc, res, ops) == [s |-> s, pc |-> pc, res |-> res, ops |-> ops]
Listening(s, ops) == Step(s, "ret", Result(FALSE, "None", "listening"), ops)

\* "should_check": every 4 chunks, or 0.5 s after the last conversion (after
\* the segment's start when there was none)
should_check(s, now) ==
    LET time_since_last == IF s.last_conversion_time > 0
                           THEN now - s.last_conversion_time
                           ELSE now - s.segment_start_time
    IN \/ (s.chunk_count % CheckEvery = 0 /\ s.chunk_count > 0)
       \/ time_since_last >= CheckT

\* a convert_to_wav_memory that does not look at conversion_lock
push_buffered_ignoring_lock(s1, now) ==
    IF s1.chunk_count < 2 THEN Listening(s1, {})
    ELSE IF ~should_check(s1, now) THEN Listening(s1, {})
    ELSE IF s1.last_conversion_time > 0 /\ now - s1.last_conversion_time < ThrottleT
         THEN Listening(s1, {})
    ELSE IF BufLen(s1.webm_buffer) < MinBufBytes THEN Listening(s1, {})
    ELSE Step([s1 EXCEPT !.conversion_lock = TRUE], "ffmpeg", NoResult, {"transcode"})

\* push_chunk after the chunk is appended, to the start of the transcoder
\* (convert_to_wav_memory's try-acquire, throttle and size test included)
push_buffered(s1, now) ==
    IF s1.chunk_count < 2 THEN Listening(s1, {})
    ELSE IF ~should_check(s1, now) THEN Listening(s1, {})
    ELSE IF s1.conversion_lock THEN Listening(s1, {})
    ELSE IF s1.last_conversion_time > 0 /\ now - s1.last_conversion_time < ThrottleT
         THEN Listening(s1, {})
    ELSE IF BufLen(s1.webm_buffer) < MinBufBytes THEN Listening(s1, {})
    ELSE Step([s1 EXCEPT !.conversion_lock = TRUE], "ffmpeg", NoResult, {"transcode"})

\* a push_chunk that buffers the chunk before it looks at processing_active
push_enter_buffering_first(s, data, now) ==
    IF s.processing_active
    THEN Step(append_chunk(s, data), "ret", Result(FALSE, "None", "speaking"), {})
    ELSE push_buffered(append_chunk(s, data), now)

\* push_chunk from the processing_active test on: the chunk is dropped while
\* the flag is set, appended otherwise
push_enter(s, data, now) ==
    IF s.processing_active
    THEN Step(s, "ret", Result(FALSE, "None", "speaking"), {})
    ELSE push_buffered(append_chunk(s, data), now)

\* a convert_to_wav_memory that empties the buffer when the transcoder fails
converted_dropping_failed_input(s, now0, out, dur) ==
    CASE out = "fail" -> [s EXCEPT !.conversion_lock = FALSE, !.webm_buffer = <<>>]
      [] out = "ok" -> [s EXCEPT !.wav_bytes = dur, !.wav_audio = dur,
                                 !.last_conversion_time = now0,
                                 !.conversion_lock = FALSE]
      [] OTHER -> [s EXCEPT !.wav_bytes = dur,
                            !.last_conversion_time = now0,
                            !.conversion_lock = FALSE]

\* a convert_to_wav_memory that leaves without releasing when the transcoder
\* fails
converted_holding_lock_on_failure(s, now0, out, dur) ==
    CASE out = "fail" -> s
      [] out = "ok" -> [s EXCEPT !.wav_bytes = dur, !.wav_audio = dur,
                                 !.last_conversion_time = now0,
                                 !.conversion_lock = FALSE]
      [] OTHER -> [s EXCEPT !.wav_bytes = dur,
                            !.last_conversion_time = now0,
                            !.conversion_lock = FALSE]

\* convert_to_wav_memory from the transcoder's return on: out is "fail"
\* (nonzero exit, empty output, timeout, exception), "ok" or "ok_noarray" (the
\* WAV could not be loaded as an array); dur is the decoded duration
converted(s, now0, out, dur) ==
    CASE out = "fail" -> [s EXCEPT !.conversion_lock = FALSE]
      [] out = "ok" -> [s EXCEPT !.wav_bytes = dur, !.wav_audio = dur,
                                 !.last_conversion_time = now0,
                                 !.conversion_lock = FALSE]
      [] OTHER -> [s EXCEPT !.wav_bytes = dur,
                            !.last_conversion_time = now0,
                            !.conversion_lock = FALSE]

\* a push_chunk that records the decoded duration before it looks at it
push_transcoded_recording_every_duration(s, now0, out, dur, vad, min_silence) ==
    LET s1 == converted(s, now0, out, dur) IN
    IF out = "fail" THEN Listening(s1, {})
    ELSE IF s1.wav_audio = -1 THEN Listening(s1, {})
    ELSE LET duration == s1.wav_audio IN
         IF duration - s1.last_duration < MinNewAudio
         THEN Listening([s1 EXCEPT !.last_duration = duration], {})
         ELSE LET s2 == [s1 EXCEPT !.last_duration = duration] IN
              IF vad = -1 THEN Listening(s2, {"vad", "no_segments"})
              ELSE LET last_end == vad
                       silence == Max(0, duration - last_end)
                   IN IF silence >= min_silence
                      THEN Step([s2 EXCEPT !.processing_active = TRUE], "asr",
                                NoResult, {"vad"})
                      ELSE Step(s2, "ret",
                                Result(FALSE, "None",
                                       IF duration - last_end < min_silence
                                       THEN "recording" ELSE "listening"),
                                {"vad"})

\* push_chunk that needs twice the silence to finalize
push_transcoded_finalizing_late(s, now0, out, dur, vad, min_silence) ==
    LET s1 == converted(s, now0, out, dur) IN
    IF out = "fail" THEN Listening(s1, {})
    ELSE IF s1.wav_audio = -1 THEN Listening(s1, {})
    ELSE LET duration == s1.wav_audio IN
         IF duration - s1.last_duration < MinNewAudio THEN Listening(s1, {})
         ELSE LET s2 == [s1 EXCEPT !.last_duration = duration] IN
              IF vad = -1 THEN Listening(s2, {"vad", "no_segments"})
              ELSE LET last_end == vad
                       silence == Max(0, duration - last_end)
                   IN IF silence >= 2 * min_silence
                      THEN Step([s2 EXCEPT !.processing_active = TRUE], "asr",
                                NoResult, {"vad"})
                      ELSE Step(s2, "ret",
                                Result(FALSE, "None",
                                       IF duration - last_end < min_silence
                                       THEN "recording" ELSE "listening"),
                                {"vad"})

\* push_chunk from the return of convert_to_wav_memory to the silence decision;
\* vad is the largest segment end VAD reports, -1 when it reports no segment
push_transcoded(s, now0, out, dur, vad, min_silence) ==
    LET s1 == converted(s, now0, out, dur) IN
    IF out = "fail" THEN Listening(s1, {})
    ELSE IF s1.wav_audio = -1 THEN Listening(s1, {})
    ELSE LET duration == s1.wav_audio IN
         IF duration - s1.last_duration < MinNewAudio THEN Listening(s1, {})
         ELSE LET s2 == [s1 EXCEPT !.last_duration = duration] IN
              IF vad = -1 THEN Listening(s2, {"vad", "no_segments"})
              ELSE LET last_end == vad
                       silence == Max(0, duration - last_end)
                   IN IF silence >= min_silence
                      THEN Step([s2 EXCEPT !.processing_active = TRUE], "asr",
                                NoResult, {"vad"})
                      ELSE Step(s2, "ret",
                                Result(FALSE, "None",
                                       IF duration - last_end < min_silence
                                       THEN "recording" ELSE "listening"),
                                {"vad"})

\* transcribe_wav_bytes: None when the model could not be loaded or nothing was
\* recognised in the audio, the text otherwise; it never raises
transcribe_wav_bytes(model, text) ==
    IF model = "unavailable" \/ text = "" THEN "None" ELSE text

\* a push_chunk that leaves the flag set whatever respond and the transcript are
push_asr_keeps_flag(s, txt, respond) ==
    LET got == IF s.wav_bytes = -1 \/ txt = "None" THEN "" ELSE txt
    IN Step([s EXCEPT !.transcript = got, !.finalized = TRUE], "advance",
            Result(TRUE, got, "speaking"), IF s.wav_bytes = -1 THEN {} ELSE {"asr"})

\* push_chunk's transcription: txt is what transcribe_wav_bytes returns
push_asr(s, txt, respond) ==
    LET got == IF s.wav_bytes = -1 \/ txt = "None" THEN "" ELSE txt
        s1 == [s EXCEPT !.transcript = got, !.finalized = TRUE]
        s2 == IF respond /\ got # "" THEN s1
              ELSE [s1 EXCEPT !.processing_active = FALSE]
    IN Step(s2, "advance", Result(TRUE, got, "speaking"),
            IF s.wav_bytes = -1 THEN {} ELSE {"asr"})

\* a push_chunk that returns its finalized result without advancing
push_advance_skipped(s, now, res) == Step(s, "ret", res, {})

\* push_chunk's advance_segment and return
push_advance(s, now, res) == Step(advance_segment(s, now), "ret", res, {})

\* ------------------------------------------------- /api/scripted_chat
\* A text is a sequence of pieces, each piece a fixed run of characters:
\*   "<thi" "nk>"  the two halves of the marker <think>
\*   "</think>"    the closing marker
\*   "[API_CALL:" "[SEARCH_KB:" "'" "," "]" "{}"   the pieces of the tool tags
\*   "GET" "POST" "PUT" "DELETE" "PATCH"           words of capital letters
\*   "get" "x"     words of small letters
\*   "/api" "/p"   the pieces of the paths /api/p and /p
\*   " "           white space
\* No piece other than these can complete a marker or a tag opener, so the
\* regular expressions of app/script.py match across pieces as written below.
Space == " "
ThinkPieces == {"<thi", "nk>", "</think>", "x", Space}
CapitalWords == {"GET", "POST", "PUT", "DELETE", "PATCH"}

\* the texts of at most n pieces
RECURSIVE TextsUpTo(_, _)
TextsUpTo(pieces, n) ==
    IF n = 0 THEN {<<>>}
    ELSE LET shorter == TextsUpTo(pieces, n - 1)
         IN shorter \cup {Append(t, p) : t \in shorter, p \in pieces}

\* the first position from j on that holds no white space (Len(t) + 1 if none)
RECURSIVE SkipSpaces(_, _)
SkipSpaces(t, j) ==
    IF j > Len(t) \/ t[j] # Space THEN j ELSE SkipSpaces(t, j + 1)

\* the first position from j on that holds piece p (Len(t) + 1 if none)
RECURSIVE Find(_, _, _)
Find(t, p, j) ==
    IF j > Len(t) \/ t[j] = p THEN j ELSE Find(t, p, j + 1)

From(t, j) == SubSeq(t, j, Len(t))

\* str.strip()
RECURSIVE rstrip(_)
rstrip(t) ==
    IF t # <<>> /\ t[Len(t)] = Space THEN rstrip(SubSeq(t, 1, Len(t) - 1)) ELSE t

strip(t) == rstrip(From(t, SkipSpaces(t, 1)))

\* re.sub(r"<think>[\s\S]*?</think>\s*", "", text): one scan from the left;
\* a match runs from a <think> to the first </think> after it and the white
\* space that follows, and the scan goes on behind the match
RECURSIVE remove_think_blocks(_)
remove_think_blocks(t) ==
    IF t = <<>> THEN <<>>
    ELSE IF /\ Len(t) >= 3 /\ t[1] = "<thi" /\ t[2] = "nk>"
            /\ Find(t, "</think>", 3) <= Len(t)
         THEN remove_think_blocks(From(t, SkipSpaces(t, Find(t, "</think>", 3) + 1)))
         ELSE <<t[1]>> \o remove_think_blocks(Tail(t))

\* sanitize_reply
sanitize_reply(text) == strip(remove_think_blocks(text))

\* the white space from j on is followed by "]"
ClosesAt(t, j) == SkipSpaces(t, j) <= Len(t) /\ t[SkipSpaces(t, j)] = "]"

\* the match of \[SEARCH_KB:\s*'([\s\S]*?)'\s*\] that starts at p: the group
\* ends at the first quote that is followed by white space and "]"
KbEnds(t, p) ==
    LET q == SkipSpaces(t, p + 1)
    IN IF t[p] = "[SEARCH_KB:" /\ q <= Len(t) /\ t[q] = "'"
       THEN {r \in (q + 1)..Len(t) : t[r] = "'" /\ ClosesAt(t, r + 1)}
       ELSE {}

SetMin(S) == CHOOSE x \in S : \A y \in S : x <= y

\* parse_search_kb_tag: None (found false), or group 1 of the leftmost match
parse_search_kb_tag(text) ==
    LET starts == {p \in 1..Len(text) : KbEnds(text, p) # {}}
    IN IF starts = {} THEN [found |-> FALSE, query |-> <<>>]
       ELSE LET p == SetMin(starts)
            IN [found |-> TRUE,
                query |-> SubSeq(text, SkipSpaces(text, p + 1) + 1,
                                 SetMin(KbEnds(text, p)) - 1)]

\* the last position of the run of capital words that starts at j
RECURSIVE WordEnd(_, _)
WordEnd(t, j) ==
    IF j + 1 <= Len(t) /\ t[j + 1] \in CapitalWords THEN WordEnd(t, j + 1) ELSE j

\* the match of
\*   \[API_CALL:\s*'([A-Z]+)\s+([^']+)'\s*(?:,\s*(\{[\s\S]*?\}))?\s*\]
\* that starts at p, with method, path and payload, or none (found false)
NoApiCall == [found |-> FALSE, method |-> <<>>, path |-> <<>>, payload |-> "None"]

ApiCall(method, path, payload) ==
    [found |-> TRUE, method |-> method, path |-> strip(path), payload |-> payload]

ApiMatchAt(t, p) ==
    LET q == SkipSpaces(t, p + 1)
        m == q + 1
        e == WordEnd(t, m)
        c == Find(t, "'", e + 1)
        sp == SkipSpaces(t, e + 1)
        after == SkipSpaces(t, c + 1)
        brace == SkipSpaces(t, after + 1)
    IN IF /\ t[p] = "[API_CALL:" /\ q <= Len(t) /\ t[q] = "'"
          /\ m <= Len(t) /\ t[m] \in CapitalWords
          /\ e + 1 <= Len(t) /\ t[e + 1] = Space
          /\ c <= Len(t) /\ c - e - 1 >= 2
       THEN LET method == SubSeq(t, m, e)
                path == IF sp < c THEN SubSeq(t, sp, c - 1) ELSE <<Space>>
            IN IF ClosesAt(t, c + 1)
               THEN ApiCall(method, path, "None")
               ELSE IF /\ after <= Len(t) /\ t[after] = ","
                       /\ brace <= Len(t) /\ t[brace] = "{}"
                       /\ ClosesAt(t, brace + 1)
               THEN ApiCall(method, path, "{}")
               ELSE NoApiCall
       ELSE NoApiCall

\* parse_api_call_tag: None, or method, path and payload of the leftmost match
parse_api_call_tag(text) ==
    LET starts == {p \in 1..Len(text) : ApiMatchAt(text, p).found}
    IN IF starts = {} THEN NoApiCall ELSE ApiMatchAt(text, SetMin(starts))

\* the tags a reply can carry, as the system prompt asks for them, and tags
\* that are not well formed
KbTag(query) == <<"[SEARCH_KB:", Space, "'">> \o query \o <<"'", "]">>
ApiTag(method, path) == <<"[API_CALL:", Space, "'", method, Space>> \o path \o <<"'", "]">>
ApiTagWithPayload(method, path) ==
    <<"[API_CALL:", "'", method, Space>> \o path \o <<"'", ",", Space, "{}", "]">>

WellFormedTags ==
    {KbTag(<<"x">>), KbTag(<<>>), ApiTagWithPayload("POST", <<"/api", "/p">>)}
        \cup {ApiTag(m, <<"/p">>) : m \in CapitalWords}

MalformedTags ==
    {<<"[SEARCH_KB:", "'", "x", "]">>, ApiTag("get", <<"/p">>),
     <<"[API_CALL:", "'", "GET", "/p", "'", "]">>}

ThinkBlock == <<"<thi", "nk>", "x", "</think>">>

\* what the model can answer: every text of up to MaxPieces pieces of markers,
\* words and white space, and every text of at most two of the fragments
Fragments == WellFormedTags \cup MalformedTags \cup {ThinkBlock, <<"x">>, <<Space>>, <<>>}
TagTexts == {a \o b : a, b \in Fragments}
Raws == TextsUpTo(ThinkPieces, MaxPieces) \cup TagTexts

\* what the model can answer to the formatting prompt
Formatted == {<<"x">>, ThinkBlock \o <<Space, "x">>, <<>>}

\* str.upper(), piece by piece
upper(word) == [i \in DOMAIN word |-> IF word[i] = "get" THEN "GET" ELSE word[i]]

\* what the developer API service does with a request
ApiOutcomes == {"json", "status_error", "network_error", "not_json"}

\* the exception raised inside the try block of call_external_api
api_exception(method, outcome) ==
    IF upper(method) \notin {<<"GET">>, <<"POST">>, <<"PUT">>, <<"DELETE">>}
    THEN "ValueError"
    ELSE CASE outcome = "status_error" -> "httpx.HTTPError"
           [] outcome = "network_error" -> "httpx.HTTPError"
           [] outcome = "not_json" -> "JSONDecodeError"
           [] OTHER -> "none"

call_external_api_catches_http_errors_only(method, path, payload, outcome) ==
    LET exc == api_exception(method, outcome)
    IN [requests |-> IF exc = "ValueError" THEN 0 ELSE 1,
        raised |-> exc \notin {"none", "httpx.HTTPError"},
        result |-> IF exc = "none" THEN [ok |-> TRUE, error |-> "None"]
                   ELSE [ok |-> FALSE, error |-> exc]]

\* call_external_api: the request goes out for GET, POST, PUT and DELETE; both
\* except clauses return {"error": str(e), "ok": False}
call_external_api(method, path, payload, outcome) ==
    LET exc == api_exception(method, outcome)
    IN [requests |-> IF exc = "ValueError" THEN 0 ELSE 1,
        raised |-> FALSE,
        result |-> IF exc = "none" THEN [ok |-> TRUE, error |-> "None"]
                   ELSE [ok |-> FALSE, error |-> exc]]

\* a call of call_llm: the loop index, the requests made, the failures, the
\* delays slept (seconds)
NewLlmCall == [attempt |-> 0, attempts |-> 0, failures |-> 0, slept |-> <<>>]

llm_failed_retries_once_more(l) ==
    [call |-> [l EXCEPT !.attempts = @ + 1, !.failures = @ + 1],
     pc |-> IF l.attempt <= MaxRetries THEN "sleep" ELSE "raised"]

\* an attempt of call_llm raises (or answers without choices): sleep and
\* retry while attempt < max_retries, raise RuntimeError otherwise
llm_failed(l) ==
    [call |-> [l EXCEPT !.attempts = @ + 1, !.failures = @ + 1],
     pc |-> IF l.attempt < MaxRetries THEN "sleep" ELSE "raised"]

\* time.sleep(retry_delay * (2 ** attempt)), then the next round of the loop
llm_slept(l) ==
    [l EXCEPT !.slept = Append(@, RetryDelay * (2 ^ l.attempt)), !.attempt = @ + 1]

\* an attempt of call_llm succeeds: its content is returned at once
llm_returned(l) == [l EXCEPT !.attempts = @ + 1]

\* a request to /api/scripted_chat: where its handler is, the call_llm under
\* way and the calls finished, and what the handler has computed
NewChat(key) ==
    [pc |-> "client", key |-> key, llm |-> NewLlmCall, calls |-> <<>>,
     raw |-> <<>>, reply |-> <<>>, tool |-> "none", api |-> NoApiCall,
     query |-> <<>>, outcome |-> "none", external |-> [requests |-> 0, raised |-> FALSE,
                                       result |-> [ok |-> TRUE, error |-> "None"]],
     out |-> <<>>]

\* no request to /api/scripted_chat is being handled
NoChat == [NewChat(FALSE) EXCEPT !.pc = "none"]

\* ------------------------------------------------ lazily created clients
\* get_http_client (external_api_client.py) and get_together_client
\* (together_client.py) create a module-global client on first use, each under
\* its own _client_lock.  Threads call them concurrently; an instance is named
\* by the order of its construction, 0 is None.
Threads == {1, 2}
ClientKinds == {"http", "together"}
IdleCaller == [pc |-> "idle", fn |-> "http", ret |-> 0, calls |-> 0, locked |-> FALSE]
NewClients(key) ==
    [thr |-> [t \in Threads |-> IdleCaller],
     client |-> [f \in ClientKinds |-> 0],
     lock |-> [f \in ClientKinds |-> 0],
     made |-> [f \in ClientKinds |-> 0],
     returned |-> [f \in ClientKinds |-> {}],
     key |-> key]

\* the test made again once the lock is held, skipped
double_check_skipped(client) == TRUE

\* "if _http_client is None" / "if _together_client is None" under the lock
double_check(client) == client = 0

\* the outer test: a thread that sees no client goes for the lock
get_client_check(g, t) ==
    [g EXCEPT !.thr[t].pc = IF g.client[g.thr[t].fn] = 0 THEN "acquire" ELSE "return"]

\* the lock is taken
get_client_acquire(g, t) ==
    [g EXCEPT !.lock[g.thr[t].fn] = t, !.thr[t].pc = "recheck", !.thr[t].locked = TRUE]

\* under the lock: nothing to do when a client exists; get_together_client
\* raises RuntimeError without TOGETHER_API_KEY, which releases the lock
get_client_recheck(g, t) ==
    LET f == g.thr[t].fn IN
    IF ~double_check(g.client[f]) THEN [g EXCEPT !.thr[t].pc = "release"]
    ELSE IF f = "together" /\ ~g.key
         THEN [g EXCEPT !.lock[f] = 0, !.thr[t].pc = "idle", !.thr[t].ret = -1]
         ELSE [g EXCEPT !.thr[t].pc = "construct"]

\* the constructor returns and the global is assigned
get_client_construct(g, t) ==
    LET f == g.thr[t].fn IN
    [g EXCEPT !.made[f] = @ + 1, !.client[f] = g.made[f] + 1, !.thr[t].pc = "release"]

\* the with block is left
get_client_release(g, t) ==
    [g EXCEPT !.lock[g.thr[t].fn] = 0, !.thr[t].pc = "return"]

\* "return _http_client" / "return _together_client": the global is read
get_client_return(g, t) ==
    LET f == g.thr[t].fn IN
    [g EXCEPT !.thr[t].pc = "idle", !.thr[t].ret = g.client[f],
              !.returned[f] = @ \cup {g.client[f]}]

\* ------------------------------------------------- the cached script config
\* configs/script.json: whether it exists, its modification time, its content
ScriptTexts == {"a", "b"}
NoFile == [exists |-> FALSE, mtime |-> 0, content |-> "-"]
ScriptFiles ==
    {NoFile} \cup [exists : {TRUE}, mtime : 1..MaxMtime, content : ScriptTexts]

\* None; ScriptConfig(): the empty config; ScriptConfig(**json.load(f)): the config
\* a content parses to
NoConfig == [script |-> "None"]
EmptyConfig == [script |-> "empty"]
ParsedConfig(content) == [script |-> content]

\* _script_cache, _script_cache_time, _script_cache_path as the module is
\* imported, with the file as it is; the config the last call returned,
\* whether that call read the file, and whether a call or a write came last
NewScript(file) ==
    [file |-> file, cache |-> NoConfig, cache_time |-> 0, cache_path |-> "None",
     ret |-> NoConfig, read |-> FALSE, last |-> "none"]

\* _load_default_script
load_default_script(g) ==
    IF ~g.file.exists
    THEN [g EXCEPT !.cache = EmptyConfig, !.cache_time = 0, !.cache_path = "path",
                   !.ret = EmptyConfig, !.read = FALSE, !.last = "load"]
    ELSE LET mtime == g.file.mtime IN
         IF g.cache = NoConfig \/ g.cache_path # "path" \/ mtime > g.cache_time
         THEN [g EXCEPT !.cache = ParsedConfig(g.file.content), !.cache_time = mtime,
                        !.cache_path = "path",
                        !.ret = ParsedConfig(g.file.content), !.read = TRUE,
                        !.last = "load"]
         ELSE [g EXCEPT !.ret = g.cache, !.read = FALSE, !.last = "load"]

\* ------------------------------------------------- the ASR model registry
\* voice/asr/whisper_runner.py keeps one WhisperModel in the module globals
\* _model, _model_path, _device, _compute_type.  The two TurnManagers of the
\* process (voice/service/shared_session.py and app/api/voice.py) are built
\* from different arguments and ask for different triples.  A model instance
\* is named by the triple it was loaded with; None is the empty triple.
Triples == {<<"base", "cpu", "int8">>, <<"small", "cuda", "float16">>}
NoModel == [loaded |-> <<>>]
WhisperModel(triple) == [loaded |-> triple]
IdleAsrCaller == [pc |-> "idle", want |-> <<"base", "cpu", "int8">>, ret |-> NoModel,
                  calls |-> 0]
NewAsr ==
    [thr |-> [t \in Threads |-> IdleAsrCaller],
     model |-> NoModel, model_path |-> "None", device |-> "None",
     compute_type |-> "None", lock |-> 0]

\* the test of _get_model made under the lock, all of it at once: the globals
\* are written under the lock only
model_cached(g, want) ==
    /\ g.model # NoModel /\ g.model_path = want[1]
    /\ g.device = want[2] /\ g.compute_type = want[3]

\* the test of the fast path, one global read at a time (no lock is held):
\* the thread goes on to the next read, or to the lock on the first mismatch
get_model_fast(g, t) ==
    LET pc == g.thr[t].pc
        want == g.thr[t].want
        hit == CASE pc = "test_model" -> g.model # NoModel
                 [] pc = "test_path" -> g.model_path = want[1]
                 [] pc = "test_device" -> g.device = want[2]
                 [] OTHER -> g.compute_type = want[3]
        next == CASE pc = "test_model" -> "test_path"
                  [] pc = "test_path" -> "test_device"
                  [] pc = "test_device" -> "test_compute_type"
                  [] OTHER -> "return_fast"
    IN [g EXCEPT !.thr[t].pc = IF hit THEN next ELSE "acquire"]

\* "return _model" of the fast path: the global is read now
get_model_return_fast(g, t) ==
    [g EXCEPT !.thr[t].pc = "idle", !.thr[t].ret = g.model]

\* under the lock: a cached model is returned and the lock released, or the
\* model is loaded
get_model_double_check(g, t) ==
    IF model_cached(g, g.thr[t].want)
    THEN [g EXCEPT !.thr[t].pc = "idle", !.thr[t].ret = g.model, !.lock = 0]
    ELSE [g EXCEPT !.thr[t].pc = "load"]

\* WhisperModel(...) returns and _model is assigned, or it raises (or the
\* import does): None is returned, the lock released, the globals left alone
get_model_load(g, t, ok) ==
    IF ok
    THEN [g EXCEPT !.model = WhisperModel(g.thr[t].want), !.thr[t].pc = "set_path"]
    ELSE [g EXCEPT !.thr[t].pc = "idle", !.thr[t].ret = NoModel, !.lock = 0]

\* _model_path, _device, _compute_type are assigned, one statement each, then
\* "return _model" and the lock is released
get_model_record(g, t) ==
    LET pc == g.thr[t].pc
        want == g.thr[t].want
    IN CASE pc = "set_path" ->
              [g EXCEPT !.model_path = want[1], !.thr[t].pc = "set_device"]
         [] pc = "set_device" ->
              [g EXCEPT !.device = want[2], !.thr[t].pc = "set_compute_type"]
         [] pc = "set_compute_type" ->
              [g EXCEPT !.compute_type = want[3], !.thr[t].pc = "return_loaded"]
         [] OTHER ->
              [g EXCEPT !.thr[t].pc = "idle", !.thr[t].ret = g.model, !.lock = 0]

\* the module globals before any service was used
NoLib == [clients |-> NewClients(FALSE), script |-> NewScript(NoFile), asr |-> NewAsr]

\* the TURN of app/api/voice.py before any session was started, and no
\* request: whether TURN.sessions holds the session, its TurnSession, where
\* the handler of the request is, the request's chunk and respond, push_chunk's
\* result, the time convert_to_wav_memory read, the requests so far, the
\* external calls of the whole request, and when the transcoder last started
NoPost ==
    [started |-> FALSE, s |-> NewSession(0), pc |-> "idle", chunk |-> NoBytes,
     respond |-> FALSE, res |-> NoResult, now |-> 0, n |-> 0, ops |-> {},
     invoked |-> -1]

\* --------------------------------------------------------------- state
VARIABLES
    env,          \* the environment of the run, fixed from the start
    clock,        \* time.time(), in units of 100 ms
    piper_voice,  \* TURN.piper_voice: "" when TTS is not configured
    cur,          \* TURN.sessions[session_id]: the registered object, 0 if none
    sess,         \* the TurnSession objects
    voice,        \* SESS.sessions[session_id]
    active,       \* active_connections[session_id]: a connection, 0 if none
    conn,         \* per connection: the signaling loop and its worker call
    tasks,        \* the reply-pipeline tasks, in creation order
    sent,         \* the frames sent by the last step, as <<connection, frame>>
    got,          \* the frame the last step handled at once, as <<connection, kind>>
    lastOps,      \* external calls (transcode, vad, asr) of the last step
    nframes,      \* frames received so far
    nchunks,      \* per connection: audio_chunk frames received so far
    nbad,         \* per connection: audio_chunk frames whose data did not decode
    nres,         \* per connection: per-chunk processing_result frames sent
    nfinal,       \* finalized per-chunk results sent for chunks with respond
    gate,         \* per object: a finalized turn still owes the half-duplex gate
    audioPending, \* audio_ready was emitted and playback_complete not yet received
    voice_SESS,   \* the session's entry in the SESS of app/api/voice.py
    chat,         \* a request to /api/scripted_chat being handled
    post,         \* POST /voice/frames: the TURN of app/api/voice.py and a request
    lib           \* module globals of the services and the threads calling them

vars == <<env, clock, piper_voice, cur, sess, voice, active, conn, tasks, sent, lastOps,
          nframes, nchunks, nbad, nres, nfinal, gate, audioPending, got, voice_SESS,
          chat, post, lib>>

\* the counters and history variables the properties read, none of them
\* program state
ghosts == <<nchunks, nbad, nres, nfinal, gate, audioPending>>

IdleConn ==
    [pc |-> "none", alive |-> FALSE, chunk |-> NoBytes, respond |-> FALSE,
     obj |-> 0, now |-> 0, res |-> NoResult, adv |-> 0, asr |-> {}]

Frame(type, fin, st, txt, reply, k) ==
    [type |-> type, finalized |-> fin, state |-> st, transcript |-> txt,
     reply |-> reply, chunk |-> k]

\* the per-chunk frame {"type": "processing_result", **res}
ResultFrame(res, k) ==
    Frame("processing_result", res.finalized, res.state, res.transcript, "-", k)

\* SESS.get(session_id) of app/api/voice.py for a session that was started by
\* /voice/webrtc/start: that SESS is another VoiceSessionManager than the one
\* of voice/service/shared_session.py, and holds no such session
NoVoiceSession == [exists |-> FALSE, reply_audio_path |-> "None"]

\* GET /voice/audio/{session_id}: s is SESS.get(session_id) of app/api/voice.py
\* (the file of a recorded path exists: TTS wrote it)
voice_audio(s) ==
    IF ~s.exists \/ s.reply_audio_path = "None" THEN "404" ELSE "wav"

Start(e, voices) ==
    /\ env = e
    /\ clock = 1
    /\ piper_voice \in voices
    /\ cur = 0
    /\ sess = [o \in Conns |-> NewSession(0)]
    /\ voice = [exists |-> FALSE, reply_audio_path |-> "None"]
    /\ active = 0
    /\ conn = [c \in Conns |-> IdleConn]
    /\ tasks = <<>>
    /\ sent = <<>>
    /\ got = <<>>
    /\ voice_SESS = NoVoiceSession
    /\ lastOps = {}
    /\ nframes = 0
    /\ nchunks = [c \in Conns |-> 0]
    /\ nbad = [c \in Conns |-> 0]
    /\ nres = [c \in Conns |-> 0]
    /\ nfinal = 0
    /\ gate = [o \in Conns |-> "off"]
    /\ audioPending = FALSE

\* what a sent frame is: the per-chunk result, the reply frame of the reply
\* pipeline, or the frame's type
Kind(f) ==
    IF f.type = "processing_result"
    THEN (IF f.chunk > 0 THEN "chunk_result" ELSE "reply")
    ELSE f.type

\* how many frames of a kind a step sent to connection c
NumSent(frames, c, kind) ==
    Cardinality({k \in DOMAIN frames : frames[k][1] = c /\ Kind(frames[k][2]) = kind})

\* how many per-chunk results a step sent to connection c that announce a
\* finalized turn: finalized, a transcript that is not empty, state "speaking"
FinalResults(frames, c) ==
    Cardinality({k \in DOMAIN frames :
                    /\ frames[k][1] = c
                    /\ Kind(frames[k][2]) = "chunk_result"
                    /\ frames[k][2].finalized
                    /\ frames[k][2].transcript \notin {"", "None"}
                    /\ frames[k][2].state = "speaking"})

\* how many processing_result frames with finalized: true a step sent to c
FinalizedFrames(frames, c) ==
    Cardinality({k \in DOMAIN frames :
                    /\ frames[k][1] = c
                    /\ frames[k][2].type = "processing_result"
                    /\ frames[k][2].finalized})

\* the server has just started
Init == Start(OneConnection, {"", "voice"}) /\ chat = NoChat /\ post = NoPost /\ lib = NoLib
InitReconnect == Start(Reconnecting, {"voice"}) /\ chat = NoChat /\ post = NoPost /\ lib = NoLib

\* a clear_processing_flag that also empties the audio buffer
clear_processing_flag_dropping_audio(ss) ==
    IF cur # 0 THEN [ss EXCEPT ![cur].processing_active = FALSE,
                               ![cur].webm_buffer = <<>>]
    ELSE ss

\* TurnManager.clear_processing_flag: acts on the object registered now
clear_processing_flag_noop(ss) == ss

clear_processing_flag(ss) ==
    IF cur # 0 THEN [ss EXCEPT ![cur].processing_active = FALSE] ELSE ss

\* a safe_send_text that swallows the frames of the half-duplex drop
SentExceptSpeaking(c, ok, frame) ==
    IF ok /\ ~(frame.state = "speaking" /\ ~frame.finalized) THEN <<<<c, frame>>>> ELSE <<>>

\* a safe_send_text that swallows audio_ready
SentExceptAudioReady(c, ok, frame) ==
    IF ok /\ frame.type # "audio_ready" THEN <<<<c, frame>>>> ELSE <<>>

\* safe_send_text: the frame is delivered iff the transport is still open
Sent(c, ok, frame) == IF ok THEN <<<<c, frame>>>> ELSE <<>>

\* the "finally" of webrtc_websocket: active_connections.pop(session_id, None);
\* the transport is closed once the endpoint returns
LoopExit_keeps_registration(c) ==
    /\ active' = active
    /\ conn' = [conn EXCEPT ![c] = [IdleConn EXCEPT !.pc = "closed"]]

LoopExit(c) ==
    /\ active' = 0
    /\ conn' = [conn EXCEPT ![c] = [IdleConn EXCEPT !.pc = "closed"]]

\* the loop goes back to receive_text
LoopContinue(c) ==
    /\ active' = active
    /\ conn' = [conn EXCEPT ![c] = [IdleConn EXCEPT !.pc = "recv", !.alive = TRUE]]

\* time passes
Tick ==
    /\ \E d \in env.delays : clock + d <= MaxClock /\ clock' = clock + d
    /\ sent' = <<>> /\ got' = <<>> /\ lastOps' = {}
    /\ UNCHANGED <<lib, post, chat, voice_SESS, env, piper_voice, cur, sess, voice, active, conn, tasks, nframes, ghosts>>

\* webrtc_websocket, up to the loop: accept, register, TURN.start, SESS entry
Accept(c) ==
    /\ c \in env.conns
    /\ conn[c].pc = "none"
    /\ \A b \in Conns : b < c => conn[b].pc # "none"
    /\ active' = c
    /\ cur' = c
    /\ sess' = [sess EXCEPT ![c] = NewSession(clock)]
    /\ voice' = [voice EXCEPT !.exists = TRUE]
    /\ conn' = [conn EXCEPT ![c] = [IdleConn EXCEPT !.pc = "recv", !.alive = TRUE]]
    /\ sent' = <<>> /\ got' = <<>> /\ lastOps' = {}
    /\ UNCHANGED <<lib, post, chat, voice_SESS, env, clock, piper_voice, tasks, nframes, ghosts>>

\* the client closes the transport
Disconnect(c) ==
    /\ conn[c].pc \notin {"none", "closed"}
    /\ conn[c].alive
    /\ conn' = [conn EXCEPT ![c].alive = FALSE]
    /\ sent' = <<>> /\ got' = <<>> /\ lastOps' = {}
    /\ UNCHANGED <<lib, post, chat, voice_SESS, env, clock, piper_voice, cur, sess, voice, active, tasks, nframes, ghosts>>

\* receive_text raises WebSocketDisconnect: the loop ends
RecvClosed(c) ==
    /\ conn[c].pc = "recv"
    /\ ~conn[c].alive
    /\ LoopExit(c)
    /\ sent' = <<>> /\ got' = <<>> /\ lastOps' = {}
    /\ UNCHANGED <<lib, post, chat, voice_SESS, env, clock, piper_voice, cur, sess, voice, tasks, nframes, ghosts>>

\* the frame the loop sends at once for an offer, a ping, and for a frame whose
\* handling raises (JSON that is no object, audio_chunk data that is no base64)
AnswerTo_offer_ponged(kind) ==
    CASE kind = "offer" -> "pong"
      [] kind = "ping" -> "pong"
      [] OTHER -> "error"

AnswerTo(kind) ==
    CASE kind = "offer" -> "answer"
      [] kind = "ping" -> "pong"
      [] OTHER -> "error"

\* the one session_id of the model, the {session_id} of the WebSocket's path
SessionId == "sid"

\* the frame sent back: the answer carries session_id and status "ready"
AnswerFrame(kind) ==
    LET f == Frame(AnswerTo(kind), FALSE, "-", "None", "-", 0)
    IN IF f.type = "answer"
       THEN [type |-> f.type, finalized |-> f.finalized, state |-> f.state,
             transcript |-> f.transcript, reply |-> f.reply, chunk |-> f.chunk,
             session_id |-> SessionId, status |-> "ready"]
       ELSE f

\* offer, ping or a frame whose handling raises: one frame is sent back, and a
\* failed send (ok false: the client has just gone) breaks the loop
RecvAnswered(c) ==
    /\ conn[c].pc = "recv" /\ conn[c].alive /\ nframes < env.frames
    /\ \E kind \in env.kinds, ok \in BOOLEAN :
         /\ sent' = Sent(c, ok, AnswerFrame(kind))
         /\ nchunks' = [nchunks EXCEPT ![c] = IF kind = "bad_base64_chunk" THEN @ + 1 ELSE @]
         /\ nbad' = [nbad EXCEPT ![c] = IF kind = "bad_base64_chunk" THEN @ + 1 ELSE @]
         /\ IF ok THEN LoopContinue(c) ELSE LoopExit(c)
         /\ got' = <<c, kind>>
    /\ nframes' = nframes + 1
    /\ lastOps' = {}
    /\ UNCHANGED <<lib, post, chat, voice_SESS, env, clock, piper_voice, cur, sess, voice, tasks, nres, nfinal, gate, audioPending>>

\* a frame that is not JSON (a frame of an unknown type fares the same):
\* logged, nothing else
RecvIgnored(c) ==
    /\ conn[c].pc = "recv" /\ conn[c].alive /\ nframes < env.frames
    /\ nframes' = nframes + 1
    /\ sent' = <<>> /\ got' = <<c, "not_json">> /\ lastOps' = {}
    /\ UNCHANGED <<lib, post, chat, voice_SESS, env, clock, piper_voice, cur, sess, voice, active, conn, tasks, ghosts>>

\* playback_complete: TURN.clear_processing_flag(session_id)
RecvPlaybackComplete(c) ==
    /\ conn[c].pc = "recv" /\ conn[c].alive /\ nframes < env.frames
    /\ sess' = clear_processing_flag(sess)
    /\ nframes' = nframes + 1
    /\ gate' = [o \in Conns |-> IF o = cur THEN "off" ELSE gate[o]]
    /\ audioPending' = FALSE
    /\ sent' = <<>> /\ got' = <<c, "playback_complete">> /\ lastOps' = {}
    /\ UNCHANGED <<lib, post, chat, voice_SESS, env, clock, piper_voice, cur, voice, active, conn, tasks,
                   nchunks, nbad, nres, nfinal>>

\* the identity of the k-th audio chunk of connection c
ChunkId(c, k) == 10 * c + k

\* audio_chunk with decodable data: dropped by the loop when processing_active
\* is set, handed to a worker thread (run_in_executor) otherwise
RecvAudioChunk(c) ==
    /\ conn[c].pc = "recv" /\ conn[c].alive /\ nframes < env.frames
    /\ nframes' = nframes + 1
    /\ nchunks' = [nchunks EXCEPT ![c] = @ + 1]
    /\ got' = <<>> /\ lastOps' = {}
    /\ IF cur # 0 /\ sess[cur].processing_active
       THEN \E ok \in BOOLEAN :
              /\ sent' = Sent(c, ok, ResultFrame(Result(FALSE, "None", "speaking"),
                                                 nchunks'[c]))
              /\ nres' = [nres EXCEPT ![c] = @ + NumSent(sent', c, "chunk_result")]
              /\ IF ok THEN LoopContinue(c) ELSE LoopExit(c)
       ELSE \E shape \in env.shapes, respond \in BOOLEAN :
              /\ conn' = [conn EXCEPT ![c].pc = "enter",
                              ![c].chunk = [id |-> ChunkId(c, nchunks'[c]),
                                            len |-> shape.len, magic |-> shape.magic],
                              ![c].respond = respond]
              /\ sent' = <<>>
              /\ UNCHANGED <<active, nres>>
    /\ UNCHANGED <<lib, post, chat, voice_SESS, env, clock, piper_voice, cur, sess, voice, tasks, nbad, nfinal, gate,
                   audioPending>>

\* the respond argument the signaling loop passes to push_chunk
LoopRespondArg(respond) == FALSE

\* a step of connection c's push_chunk call on object o, with outcome r; adv
\* adds up what the call's own steps do to segment_index
PushStep(c, o, r) ==
    /\ sess' = [sess EXCEPT ![o] = r.s]
    /\ conn' = [conn EXCEPT ![c].pc = r.pc, ![c].res = r.res, ![c].obj = o,
                            ![c].now = IF conn[c].pc = "enter" THEN clock ELSE @,
                            ![c].adv = @ + (r.s.segment_index - sess[o].segment_index),
                            ![c].asr = IF conn[c].pc = "asr" THEN r.ops ELSE @]
    /\ got' = <<>> /\ lastOps' = r.ops
    /\ sent' = <<>>

\* the worker thread starts push_chunk on the object registered now (after an
\* accept there always is one, so "invalid session" is never returned)
PushEnter(c) ==
    /\ conn[c].pc = "enter"
    /\ cur # 0
    /\ PushStep(c, cur, push_enter(sess[cur], conn[c].chunk, clock))
    /\ UNCHANGED <<lib, post, chat, voice_SESS, env, clock, piper_voice, cur, voice, active, tasks, nframes, ghosts>>

\* the transcoder returns
PushTranscoded(c) ==
    /\ conn[c].pc = "ffmpeg"
    /\ \E t \in env.transcodes :
         LET o == conn[c].obj
             r == push_transcoded(sess[o], conn[c].now, t.out, t.dur, t.vad,
                                  LoopMinSilence)
         IN /\ PushStep(c, o, r)
            /\ gate' = [gate EXCEPT ![o] = IF r.pc = "asr" /\ conn[c].respond
                                           THEN "pending" ELSE @]
    /\ UNCHANGED <<lib, post, chat, voice_SESS, env, clock, piper_voice, cur, voice, active, tasks, nframes,
                   nchunks, nbad, nres, nfinal, audioPending>>

\* ASR returns; a call that found no model is remembered until the call's
\* result has been sent
PushAsr(c) ==
    /\ conn[c].pc = "asr"
    /\ \E model \in AsrModels, text \in Transcripts :
         LET o == conn[c].obj
             p == push_asr(sess[o], transcribe_wav_bytes(model, text),
                           LoopRespondArg(conn[c].respond))
             r == IF model = "unavailable" /\ "asr" \in p.ops
                  THEN [p EXCEPT !.ops = @ \cup {"model_unavailable"}] ELSE p
         IN /\ PushStep(c, o, r)
            /\ gate' = [gate EXCEPT ![o] = IF conn[c].respond
                                           THEN (IF r.res.transcript # "" THEN "owed" ELSE "off")
                                           ELSE @]
    /\ UNCHANGED <<lib, post, chat, voice_SESS, env, clock, piper_voice, cur, voice, active, tasks, nframes,
                   nchunks, nbad, nres, nfinal, audioPending>>

\* advance_segment waits for conversion_lock; then push_chunk returns
PushAdvance(c) ==
    /\ conn[c].pc = "advance"
    /\ ~sess[conn[c].obj].conversion_lock
    /\ PushStep(c, conn[c].obj, push_advance(sess[conn[c].obj], clock, conn[c].res))
    /\ UNCHANGED <<lib, post, chat, voice_SESS, env, clock, piper_voice, cur, voice, active, tasks, nframes, ghosts>>

\* ------------------------------------------------------ reply pipeline
NewTask(c, o, transcript) ==
    [pc |-> "created", conn |-> c, obj |-> 0, transcript |-> transcript,
     turn_obj |-> o, ttsok |-> FALSE, open |-> FALSE, final |-> 0, audio |-> 0,
     err |-> FALSE, replied |-> FALSE]

\* the loop resumes after the worker: it sends the per-chunk processing_result
\* and, for a finalized turn with respond and a transcript, creates the reply
\* task (asyncio.create_task, not awaited).  The loop was suspended on the
\* worker's future, so a reply task created before has already started.
SendResult(c) ==
    /\ conn[c].pc = "ret"
    /\ \A i \in DOMAIN tasks : tasks[i].pc # "created"
    /\ LET res == conn[c].res
           ok == conn[c].alive
           reply_needed == res.finalized /\ conn[c].respond /\ res.transcript # ""
       IN /\ sent' = Sent(c, ok, ResultFrame(res, nchunks[c]))
          /\ nres' = [nres EXCEPT ![c] = @ + NumSent(sent', c, "chunk_result")]
          /\ nfinal' = IF conn[c].respond
                       THEN nfinal + FinalResults(sent', c) ELSE nfinal
          /\ IF ok
             THEN /\ LoopContinue(c)
                  /\ tasks' = IF reply_needed
                              THEN Append(tasks, [NewTask(c, conn[c].obj, res.transcript)
                                                    EXCEPT !.final = FinalizedFrames(sent', c)])
                              ELSE tasks
             ELSE LoopExit(c) /\ tasks' = tasks
          /\ gate' = IF ~ok /\ reply_needed
                     THEN [gate EXCEPT ![conn[c].obj] = "off"] ELSE gate
    /\ got' = <<>> /\ lastOps' = {}
    /\ UNCHANGED <<lib, post, chat, voice_SESS, env, clock, piper_voice, cur, sess, voice, nframes, nchunks, nbad,
                   audioPending>>

Msg(role, content) == [role |-> role, content |-> content]

\* the "history" of the payload posted to /api/scripted_chat
payload_history(s) == LastN(s.conversation_history, HistoryCap)

\* _handle_scripted_chat_response up to the HTTP call: look the session up,
\* set processing_active, append the user message
TaskStart(i) ==
    /\ tasks[i].pc = "created"
    /\ IF cur = 0
       THEN /\ tasks' = [tasks EXCEPT ![i].pc = "done"]
            /\ sess' = sess
       ELSE /\ sess' = [sess EXCEPT ![cur].processing_active = TRUE,
                                    ![cur].conversation_history =
                                        Append(@, Msg("user", tasks[i].transcript))]
            /\ tasks' = [tasks EXCEPT ![i].pc = "http", ![i].obj = cur]
    /\ sent' = <<>> /\ got' = <<>> /\ lastOps' = {}
    /\ UNCHANGED <<lib, post, chat, voice_SESS, env, clock, piper_voice, cur, voice, active, conn, nframes, ghosts>>

\* the task ends without audio: the turn owes the gate no longer
GateReleased(i) == [gate EXCEPT ![tasks[i].turn_obj] = "off"]

\* the HTTP call returns: an error (network, status, bad body) clears the flag
\* and sends an error frame; a reply is recorded and sent, then either TTS is
\* started or the flag is cleared.  A failed send of the reply ends the task.
TaskHttp(i) ==
    /\ tasks[i].pc = "http"
    /\ LET c == tasks[i].conn
           o == tasks[i].obj
           ok == conn[c].alive
       IN \E reply \in Replies \cup {"error"} :
            IF reply = "error"
            THEN /\ sess' = clear_processing_flag(sess)
                 /\ sent' = Sent(c, ok, Frame("error", FALSE, "-", "None", "-", 0))
                 /\ tasks' = [tasks EXCEPT ![i].pc = "done", ![i].err = TRUE]
                 /\ gate' = GateReleased(i)
            ELSE LET s1 == IF reply # ""
                           THEN [sess EXCEPT ![o].conversation_history =
                                                 Append(@, Msg("assistant", reply)),
                                             ![o].turn_number = @ + 1]
                           ELSE sess
                 IN /\ sent' = Sent(c, ok, Frame("processing_result", TRUE, "speaking",
                                                 "None", reply, 0))
                    /\ IF ~ok
                       THEN /\ sess' = s1
                            /\ tasks' = [tasks EXCEPT ![i].pc = "done"]
                            /\ gate' = GateReleased(i)
                       ELSE IF reply # "" /\ piper_voice # ""
                       THEN /\ sess' = s1
                            /\ tasks' = [tasks EXCEPT ![i].pc = "tts", ![i].replied = TRUE,
                                                      ![i].final = @ + FinalizedFrames(sent', c)]
                            /\ gate' = gate
                       ELSE /\ sess' = clear_processing_flag(s1)
                            /\ tasks' = [tasks EXCEPT ![i].pc = "done", ![i].replied = TRUE,
                                                      ![i].final = @ + FinalizedFrames(sent', c)]
                            /\ gate' = GateReleased(i)
    /\ got' = <<>> /\ lastOps' = {}
    /\ UNCHANGED <<lib, post, chat, voice_SESS, env, clock, piper_voice, cur, voice, active, conn, nframes,
                   nchunks, nbad, nres, nfinal, audioPending>>

\* TTS returns: audio_ready is sent (_send_audio_ready) or the flag is cleared
TaskTts(i) ==
    /\ tasks[i].pc = "tts"
    /\ LET c == tasks[i].conn
           ok == conn[c].alive
       IN \E tts \in BOOLEAN :
            IF tts
            THEN /\ voice' = [exists |-> TRUE, reply_audio_path |-> "reply"]
                 /\ sent' = Sent(c, ok, Frame("audio_ready", FALSE, "-", "None", "-", 0))
                 /\ sess' = sess
                 /\ tasks' = [tasks EXCEPT ![i].pc = "done", ![i].ttsok = TRUE,
                                           ![i].open = ok,
                                           ![i].audio = @ + NumSent(sent', c, "audio_ready")]
                 /\ audioPending' = (ok \/ audioPending)
                 /\ gate' = IF ok THEN gate ELSE GateReleased(i)
            ELSE /\ sess' = clear_processing_flag(sess)
                 /\ sent' = <<>>
                 /\ tasks' = [tasks EXCEPT ![i].pc = "done"]
                 /\ gate' = GateReleased(i)
                 /\ UNCHANGED <<voice, audioPending>>
    /\ got' = <<>> /\ lastOps' = {}
    /\ UNCHANGED <<lib, post, chat, voice_SESS, env, clock, piper_voice, cur, active, conn, nframes,
                   nchunks, nbad, nres, nfinal>>

\* ten turns into a conversation: twenty messages exchanged, the tenth reply
\* played back, the client still connected and silent since
MidlifeTurns == HistoryCap \div 2
MidlifeHistory ==
    [k \in 1..(2 * MidlifeTurns) |->
        IF k % 2 = 1 THEN Msg("user", "hi") ELSE Msg("assistant", "ok")]
InitMidlife ==
    /\ env = Midlife
    /\ clock = 1
    /\ piper_voice = "voice"
    /\ cur = 1
    /\ sess = [o \in Conns |->
                 IF o = 1
                 THEN [NewSession(1) EXCEPT
                          !.segment_index = MidlifeTurns,
                          !.conversation_history = MidlifeHistory,
                          !.turn_number = MidlifeTurns,
                          !.webm_header = [id |-> 1, len |-> 300, magic |-> TRUE]]
                 ELSE NewSession(0)]
    /\ voice = [exists |-> TRUE, reply_audio_path |-> "reply"]
    /\ active = 1
    /\ conn = [c \in Conns |->
                 IF c = 1 THEN [IdleConn EXCEPT !.pc = "recv", !.alive = TRUE]
                 ELSE IdleConn]
    /\ tasks = <<>>
    /\ sent = <<>>
    /\ got = <<>>
    /\ voice_SESS = NoVoiceSession
    /\ chat = NoChat
    /\ post = NoPost /\ lib = NoLib
    /\ lastOps = {}
    /\ nframes = 0
    /\ nchunks = [c \in Conns |-> 0]
    /\ nbad = [c \in Conns |-> 0]
    /\ nres = [c \in Conns |-> 0]
    /\ nfinal = 0
    /\ gate = [o \in Conns |-> "off"]
    /\ audioPending = FALSE

Next ==
    \/ Tick
    \/ \E c \in Conns :
         \/ Accept(c)
         \/ Disconnect(c)
         \/ RecvClosed(c)
         \/ RecvAnswered(c)
         \/ RecvIgnored(c)
         \/ RecvPlaybackComplete(c)
         \/ RecvAudioChunk(c)
         \/ PushEnter(c)
         \/ PushTranscoded(c)
         \/ PushAsr(c)
         \/ PushAdvance(c)
         \/ SendResult(c)
    \/ \E i \in DOMAIN tasks :
         \/ TaskStart(i)
         \/ TaskHttp(i)
         \/ TaskTts(i)

Spec == Init /\ [][Next]_vars
SpecReconnect == InitReconnect /\ [][Next]_vars
SpecMidlife == InitMidlife /\ [][Next]_vars

\* ------------------------------------------- /api/scripted_chat, steps
\* everything but the request being handled
pipeline == <<env, clock, piper_voice, cur, sess, voice, active, conn, tasks, sent,
              lastOps, nframes, nchunks, nbad, nres, nfinal, gate, audioPending, got,
              voice_SESS, post, lib>>

\* call_llm begins: get_together_client() raises RuntimeError when no client
\* was created yet and TOGETHER_API_KEY is not set
LlmClient ==
    /\ chat.pc = "client"
    /\ chat' = [chat EXCEPT !.pc = IF chat.key THEN "llm" ELSE "raised",
                            !.llm = NewLlmCall]
    /\ UNCHANGED pipeline

\* an attempt fails; after the last one call_llm raises and the handler with it
LlmFails ==
    /\ chat.pc = "llm"
    /\ LET r == llm_failed(chat.llm)
       IN chat' = [chat EXCEPT !.llm = r.call, !.pc = r.pc,
                               !.calls = IF r.pc = "raised"
                                         THEN Append(@, [call |-> r.call, returned |-> FALSE])
                                         ELSE @]
    /\ UNCHANGED pipeline

\* the delay before the next attempt is over
LlmSleep ==
    /\ chat.pc = "sleep"
    /\ chat' = [chat EXCEPT !.llm = llm_slept(@), !.pc = "llm"]
    /\ UNCHANGED pipeline

\* an attempt succeeds.  The first call's content is the raw reply; the second
\* call's content, sanitized, is the final reply
LlmReturns ==
    /\ chat.pc = "llm"
    /\ \E content \in IF chat.calls # <<>> THEN Formatted
                       ELSE IF env.texts = "all" THEN Raws ELSE TagTexts :
         LET done == [call |-> llm_returned(chat.llm), returned |-> TRUE]
         IN chat' = IF chat.calls = <<>>
                    THEN [chat EXCEPT !.llm = done.call, !.calls = Append(@, done),
                                      !.raw = content, !.pc = "dispatch"]
                    ELSE [chat EXCEPT !.llm = done.call, !.calls = Append(@, done),
                                      !.out = sanitize_reply(content), !.pc = "done"]
    /\ UNCHANGED pipeline

\* the handler sanitizes the raw reply and looks for a tag: API_CALL first,
\* then SEARCH_KB with a query that is not empty, else the reply is final
Dispatch ==
    /\ chat.pc = "dispatch"
    /\ LET reply == sanitize_reply(chat.raw)
           api_call == parse_api_call_tag(reply)
           search == parse_search_kb_tag(reply)
       IN chat' = IF api_call.found
                  THEN [chat EXCEPT !.reply = reply, !.tool = "api", !.pc = "api",
                                    !.api = [api_call EXCEPT !.path =
                                               IF Len(@) >= 2 /\ @[1] = "/api" /\ @[2] = "/p"
                                               THEN Tail(@) ELSE @]]
                  ELSE IF search.found /\ search.query # <<>>
                  THEN [chat EXCEPT !.reply = reply, !.tool = "kb", !.pc = "kb",
                                    !.query = search.query]
                  ELSE [chat EXCEPT !.reply = reply, !.out = reply, !.pc = "done"]
    /\ UNCHANGED pipeline

\* call_external_api returns (the handler would raise with it if it raised);
\* the formatting call of call_llm follows
ExternalApi ==
    /\ chat.pc = "api"
    /\ \E outcome \in ApiOutcomes :
         LET r == call_external_api(chat.api.method, chat.api.path, chat.api.payload,
                                    outcome)
         IN chat' = [chat EXCEPT !.external = r, !.outcome = outcome,
                                 !.pc = IF r.raised THEN "raised" ELSE "client"]
    /\ UNCHANGED pipeline

\* the knowledge-base search returns; the formatting call of call_llm follows
KbSearch ==
    /\ chat.pc = "kb"
    /\ chat' = [chat EXCEPT !.pc = "client"]
    /\ UNCHANGED pipeline

InitChat ==
    /\ Start(OneConnection, {"voice"}) /\ post = NoPost /\ lib = NoLib
    /\ chat \in {NewChat(key) : key \in BOOLEAN}
InitChatShort ==
    /\ Start(ShortAnswers, {"voice"}) /\ post = NoPost /\ lib = NoLib
    /\ chat \in {NewChat(key) : key \in BOOLEAN}

NextChat ==
    \/ LlmClient
    \/ LlmFails
    \/ LlmSleep
    \/ LlmReturns
    \/ Dispatch
    \/ ExternalApi
    \/ KbSearch

SpecChat == InitChat /\ [][NextChat]_vars
\* call_llm runs on: a request to the model ends (the client's timeout), and
\* so does a sleep
SpecChatFair ==
    InitChatShort /\ [][NextChat]_vars
        /\ WF_vars(LlmClient \/ LlmFails \/ LlmSleep \/ LlmReturns)

\* ------------------------------------------------ POST /voice/frames
\* everything but the clock and the TURN of app/api/voice.py
beside_post == <<env, piper_voice, cur, sess, voice, active, conn, tasks, sent,
                 lastOps, nframes, nchunks, nbad, nres, nfinal, gate, audioPending,
                 got, voice_SESS, chat, lib>>

\* a step of the push_chunk call of the request, with outcome r
PostStep(r) ==
    post' = [post EXCEPT !.s = r.s, !.pc = r.pc, !.res = r.res,
                         !.ops = @ \cup r.ops,
                         !.now = IF post.pc = "ffmpeg" THEN @ ELSE clock,
                         !.invoked = IF "transcode" \in r.ops THEN clock ELSE @]

\* POST /voice/start: TURN.start(sid)
VoiceStart ==
    /\ ~post.started /\ post.pc \in {"idle", "ret"}
    /\ post' = [post EXCEPT !.started = TRUE, !.s = NewSession(clock)]
    /\ UNCHANGED <<clock, beside_post>>

\* voice_frames: a chunk arrives and TURN.push_chunk(session_id, data,
\* respond=respond) runs on the event loop, up to the start of the transcoder;
\* the handler answers with push_chunk's result (pc "ret") before it takes
\* the next request
FramesPost ==
    /\ post.pc \in {"idle", "ret"} /\ post.n < env.frames
    /\ \E shape \in env.shapes, respond \in BOOLEAN :
         LET data == [id |-> post.n + 1, len |-> shape.len, magic |-> shape.magic]
             r == IF post.started THEN push_enter(post.s, data, clock)
                  ELSE Step(post.s, "ret", NoResult, {})
         IN post' = [post EXCEPT !.s = r.s, !.pc = r.pc, !.res = r.res, !.ops = r.ops,
                                 !.now = clock, !.chunk = data, !.respond = respond,
                                 !.n = @ + 1,
                                 !.invoked = IF "transcode" \in r.ops THEN clock ELSE @]
    /\ UNCHANGED <<clock, beside_post>>

\* the transcoder returns
PostTranscoded ==
    /\ post.pc = "ffmpeg"
    /\ \E t \in env.transcodes :
         PostStep(push_transcoded(post.s, post.now, t.out, t.dur, t.vad,
                                  DefaultMinSilence))
    /\ UNCHANGED <<clock, beside_post>>

\* ASR returns
PostAsr ==
    /\ post.pc = "asr"
    /\ \E model \in AsrModels, text \in Transcripts :
         PostStep(push_asr(post.s, transcribe_wav_bytes(model, text), post.respond))
    /\ UNCHANGED <<clock, beside_post>>

\* advance_segment, then push_chunk returns
PostAdvance ==
    /\ post.pc = "advance"
    /\ ~post.s.conversion_lock
    /\ PostStep(push_advance(post.s, clock, post.res))
    /\ UNCHANGED <<clock, beside_post>>

InitFrames == Start(FramesClient, {"voice"}) /\ chat = NoChat /\ post = NoPost /\ lib = NoLib

NextFrames ==
    \/ Tick
    \/ VoiceStart
    \/ FramesPost
    \/ PostTranscoded
    \/ PostAsr
    \/ PostAdvance

SpecFrames == InitFrames /\ [][NextFrames]_vars

\* ============================================================== claims
\* the positions of a connection inside a push_chunk call
InCall == {"enter", "ffmpeg", "asr", "advance", "ret"}

\* C1: a push_chunk call made while processing_active is true does not append
\* the chunk, leaves chunk_count (and the whole session) as it was, runs no
\* transcode, VAD or ASR, and returns {ok, finalized: false, state: speaking}.
C1_DropWhileProcessing ==
    [][\A c \in Conns :
          (conn[c].pc = "enter" /\ conn'[c].pc # "enter" /\ sess[cur].processing_active)
          => /\ sess'[cur] = sess[cur]
             /\ lastOps' = {}
             /\ conn'[c].pc = "ret"
             /\ conn'[c].res = Result(FALSE, "None", "speaking")]_vars

\* a push_chunk call has returned the drop result: the loop found the flag
\* clear, the reply task set it before the worker looked at it
C1_Witness ==
    \E c \in Conns :
        /\ conn[c].pc = "ret"
        /\ conn[c].res = Result(FALSE, "None", "speaking")
        /\ sess[conn[c].obj].processing_active
        /\ sess[conn[c].obj].chunk_count = 0

\* C2 (as claimed): from the finalization of a turn with respond and a
\* non-empty transcript until the gate is released (no reply needed, reply
\* without audio, playback_complete), processing_active is true.
C2_FlagHeldFromFinalization ==
    \A o \in Conns : gate[o] \in {"pending", "owed"} => sess[o].processing_active

\* C3 (as claimed): once audio_ready was emitted, push_chunk finalizes no turn
\* before a playback_complete frame is received.
C3_NoFinalizationBeforePlaybackComplete ==
    [][audioPending => ~(\E c \in Conns : conn[c].pc = "ffmpeg" /\ conn'[c].pc = "asr")]_vars

\* C4: a push_chunk call that returns finalized: true has increased
\* segment_index by exactly 1 by the time it returns, and a call that returns
\* finalized: false has not changed it.
C4_FinalizationAdvancesOnce ==
    \A c \in Conns :
        conn[c].pc = "ret"
        => conn[c].adv = (IF conn[c].res.finalized THEN 1 ELSE 0)

\* a call has returned finalized: true with an empty transcript, one segment on
C4_Witness ==
    \E c \in Conns :
        /\ conn[c].pc = "ret"
        /\ conn[c].res.finalized
        /\ conn[c].res.transcript = ""
        /\ conn[c].adv = 1

\* C5: every TurnSession starts with segment_index 0, and a step either leaves
\* segment_index as it is or adds 1 to it, the latter only in the
\* advance_segment of a push_chunk call on that session.
C5_SegmentIndexMonotonic ==
    /\ \A o \in Conns : sess[o].segment_index = 0
    /\ [][\A o \in Conns :
            \/ sess'[o].segment_index = sess[o].segment_index
            \/ /\ sess'[o].segment_index = sess[o].segment_index + 1
               /\ \E c \in Conns : /\ conn[c].pc = "advance"
                                    /\ conn'[c].pc = "ret"
                                    /\ conn[c].obj = o]_vars

\* a session two segments on, with a reply recorded in between
C5_Witness ==
    \E o \in Conns : sess[o].segment_index = 2 /\ sess[o].turn_number = 1

\* C6 (as claimed): an accept that finds a TurnSession registered leaves the
\* registered session's segment_index, conversation_history, turn_number,
\* captured header and processing_active as they were.
C6_AcceptReusesSession ==
    [][\A c \in Conns :
          (conn[c].pc = "none" /\ conn'[c].pc = "recv" /\ cur # 0)
          => /\ sess'[cur'].segment_index = sess[cur].segment_index
             /\ sess'[cur'].conversation_history = sess[cur].conversation_history
             /\ sess'[cur'].turn_number = sess[cur].turn_number
             /\ sess'[cur'].webm_header = sess[cur].webm_header
             /\ sess'[cur'].processing_active = sess[cur].processing_active]_vars

\* C7 (as claimed): conversation_history never holds more than 20 messages.
C7_HistoryAtMostTwenty ==
    \A o \in Conns : Len(sess[o].conversation_history) <= HistoryCap

\* C8 (as claimed): when a reply-pipeline run that got past the session lookup
\* ends without having sent audio_ready, processing_active is false for the
\* session.
C8_NoAudioClearsFlag ==
    [][\A i \in DOMAIN tasks :
          (/\ tasks[i].pc \in {"http", "tts"}
           /\ tasks'[i].pc = "done"
           /\ NumSent(sent', tasks[i].conn, "audio_ready") = 0)
          => ~sess'[cur'].processing_active]_vars

\* C9 (as claimed): every audio_chunk frame received has got exactly one
\* per-chunk processing_result by the time the loop reads the next frame, and
\* all but the chunk in the worker have got theirs.
C9_OneResultPerChunk ==
    \A c \in Conns :
        /\ conn[c].pc = "recv" => nres[c] = nchunks[c]
        /\ conn[c].pc \in InCall => nres[c] + 1 = nchunks[c]

\* C9 (amended): on a connection that stays open, every audio_chunk frame
\* whose data decodes has got exactly one per-chunk processing_result by the
\* time the loop reads the next frame, results are sent in arrival order (all
\* chunks but the one in the worker have got theirs), and an audio_chunk whose
\* data does not decode gets none.
C9_OneResultPerDecodedChunk ==
    \A c \in Conns :
        /\ conn[c].pc = "recv" => nres[c] + nbad[c] = nchunks[c]
        /\ conn[c].pc \in InCall => nres[c] + nbad[c] + 1 = nchunks[c]

\* the loop is back at receive_text after a chunk that did not decode, a chunk
\* that was processed and a chunk dropped by the half-duplex gate
C9_Witness ==
    \E c \in Conns :
        /\ conn[c].pc = "recv"
        /\ nbad[c] = 1
        /\ nres[c] = 3
        /\ sess[cur].processing_active

\* C10 (as claimed): a turn whose audio_ready was sent has got exactly one
\* processing_result frame with finalized: true.
C10_OneFinalizedFrameThenAudioReady ==
    \A i \in DOMAIN tasks : tasks[i].audio = 1 => tasks[i].final = 1

\* C10 (amended): every reply task stands for exactly one finalized per-chunk
\* result (transcript, state "speaking") that was sent before the task was
\* created; a task sends at most one audio_ready, only after TTS succeeded
\* and after a second finalized processing_result, the one that carries the
\* reply; and it sends exactly one when TTS succeeded with the connection open.
C10_OneFinalResultThenOneAudioReady ==
    /\ nfinal = Len(tasks)
    /\ \A i \in DOMAIN tasks :
          /\ tasks[i].audio <= 1
          /\ tasks[i].audio = 1
             => (tasks[i].pc = "done" /\ tasks[i].ttsok /\ tasks[i].final = 2)
          /\ (tasks[i].pc = "done" /\ tasks[i].ttsok /\ tasks[i].open)
             => tasks[i].audio = 1

\* a turn's reply task has sent its audio_ready
C10_Witness ==
    \E i \in DOMAIN tasks : tasks[i].audio = 1 /\ nfinal = i

\* the last step sent no frame on connection c
NothingSentTo(c) == \A k \in DOMAIN sent' : sent'[k][1] # c

\* the last step was one in which connection c's loop tried to send a frame
\* and the send failed
LoopSendFailed(c) ==
    /\ sent' = <<>>
    /\ \/ got' # <<>> /\ got'[1] = c /\ got'[2] \in FrameKinds
       \/ conn[c].pc = "ret" /\ conn'[c].pc # "ret"
       \/ /\ conn[c].pc = "recv" /\ got' = <<>>
          /\ nchunks'[c] # nchunks[c] /\ conn'[c].pc # "enter"

\* C11: a failed send of the signaling loop ends the loop, which sends nothing
\* afterwards; every step that ends the loop (disconnect seen by receive_text,
\* failed send) leaves session_id out of active_connections; a reply task of a
\* connection that is gone takes its next step to its end, sending nothing.
C11_LoopExitOnFailedSend ==
    [][\A c \in Conns :
         /\ LoopSendFailed(c) => conn'[c].pc = "closed"
         /\ (conn[c].pc # "closed" /\ conn'[c].pc = "closed")
               => (active' = 0 /\ NothingSentTo(c))
         /\ conn[c].pc = "closed" => (conn'[c] = conn[c] /\ NothingSentTo(c))
         /\ \A i \in DOMAIN tasks :
               (/\ tasks[i].conn = c /\ ~conn[c].alive
                /\ tasks[i].pc \in {"http", "tts"} /\ tasks'[i] # tasks[i])
                 => (tasks'[i].pc = "done" /\ NothingSentTo(c))]_vars

\* the loop has exited and its reply task ran on to its end: TTS succeeded and
\* audio_ready could no longer be sent
C11_Witness ==
    \E c \in Conns : \E i \in DOMAIN tasks :
        /\ conn[c].pc = "closed" /\ active = 0
        /\ tasks[i].conn = c /\ tasks[i].pc = "done"
        /\ tasks[i].ttsok /\ ~tasks[i].open

\* the flag of the session registered for session_id is clear after the step
FlagCleared == cur # 0 => ~sess'[cur].processing_active

\* C12: TTS is attempted only after the reply frame was sent; a TTS failure
\* sends no frame (no error frame) and clears processing_active; a failed
\* HTTP/LLM call clears processing_active and sends one error frame to a
\* client that is still connected.
C12_ReplyBeforeTtsErrorOnLlmFailure ==
    [][\A i \in DOMAIN tasks :
         /\ tasks'[i].pc = "tts" => tasks'[i].replied
         /\ (tasks[i].pc = "tts" /\ tasks'[i].pc = "done" /\ ~tasks'[i].ttsok)
               => (tasks[i].replied /\ sent' = <<>> /\ FlagCleared)
         /\ (tasks[i].pc = "http" /\ tasks'[i].err)
               => /\ FlagCleared
                  /\ ~tasks'[i].replied
                  /\ conn[tasks[i].conn].alive
                       => NumSent(sent', tasks[i].conn, "error") = 1]_vars

\* TTS was attempted after a reply was delivered, and failed: the flag is
\* clear and the client is still connected
C12_Witness ==
    /\ Len(tasks) = 1 /\ piper_voice # ""
    /\ tasks[1].pc = "done" /\ tasks[1].replied /\ ~tasks[1].ttsok
    /\ sess[tasks[1].obj].turn_number = 1
    /\ ~sess[tasks[1].obj].processing_active
    /\ conn[tasks[1].conn].alive

\* the HTTP call of a reply task failed
C12_WitnessLlmFailure ==
    \E i \in DOMAIN tasks : tasks[i].err /\ conn[tasks[i].conn].alive

\* C13: a finalization whose ASR call found the model unavailable is answered
\* with an error frame to the (connected) client.
C13_ErrorFrameWhenAsrUnavailable ==
    [][\A c \in Conns :
         (/\ conn[c].pc = "ret" /\ conn'[c].pc # "ret" /\ conn[c].alive
          /\ "model_unavailable" \in conn[c].asr)
           => NumSent(sent', c, "error") = 1]_vars

\* C13, the part that holds: after such a finalization the session takes
\* chunks again (processing_active is false when push_chunk returns)
C13_SessionStaysAlive ==
    \A c \in Conns :
        (conn[c].pc = "ret" /\ "model_unavailable" \in conn[c].asr /\ Len(tasks) = 0)
          => ~sess[conn[c].obj].processing_active

\* C14: a fetch of /voice/audio/{session_id} answers 404 exactly when no reply
\* audio has been recorded for the session, and returns the WAV once
\* audio_ready has been emitted.
C14_FetchFindsReplyAudio ==
    /\ (voice_audio(voice_SESS) = "404") <=> (voice.reply_audio_path = "None")
    /\ (\E i \in DOMAIN tasks : tasks[i].audio > 0) => voice_audio(voice_SESS) = "wav"

\* C19: the loop answers an offer with an answer frame that carries the
\* session_id and status "ready", and a ping with a pong frame (a send that
\* fails ends the loop instead); neither frame changes a TurnSession field or
\* the registration of the session.
C19_OfferAnsweredPingPonged ==
    [][\A c \in Conns :
         (got' # <<>> /\ got'[1] = c /\ got'[2] \in {"offer", "ping"})
           => /\ sess' = sess /\ cur' = cur
              /\ IF sent' = <<>> THEN conn'[c].pc = "closed"
                 ELSE /\ Len(sent') = 1 /\ sent'[1][1] = c
                      /\ conn'[c].pc = "recv"
                      /\ IF got'[2] = "offer"
                         THEN /\ sent'[1][2].type = "answer"
                              /\ sent'[1][2].session_id = SessionId
                              /\ sent'[1][2].status = "ready"
                         ELSE sent'[1][2].type = "pong"]_vars

\* an offer arrives while the session is buffering audio, and is answered
C19_Witness ==
    /\ got = <<1, "offer">> /\ sent # <<>>
    /\ cur # 0 /\ sess[cur].chunk_count > 0

\* C20: the step of push_chunk that decides to finalize sets processing_active,
\* and while the ASR call of a push_chunk is pending or made, processing_active
\* of the session it works on is true.
C20_AsrOnlyWhileProcessingActive ==
    [][\A c \in Conns :
         /\ (conn[c].pc = "ffmpeg" /\ conn'[c].pc = "asr")
               => sess'[conn'[c].obj].processing_active
         /\ (conn[c].pc = "asr" /\ "asr" \in lastOps' /\ conn'[c].pc # "asr")
               => sess[conn[c].obj].processing_active]_vars

\* C20, the part that holds: the flag is set in the step that decides to
\* finalize, before the ASR call
C20_FlagSetBeforeAsr ==
    [][\A c \in Conns :
         (conn[c].pc = "ffmpeg" /\ conn'[c].pc = "asr")
           => sess'[conn'[c].obj].processing_active]_vars

\* the delays call_llm sleeps: 1 s after the first failure, 2 s after the second
Backoff == <<1, 2>>

\* a call of call_llm made at most three requests, each but the last a
\* failure, and slept 1 s and then 2 s between them
LlmCallBounded(l) ==
    /\ l.attempts <= 3
    /\ l.failures <= l.attempts /\ l.attempts <= l.failures + 1
    /\ Len(l.slept) <= 2 /\ l.slept = SubSeq(Backoff, 1, Len(l.slept))

\* the handler is inside call_llm
InCallLlm == chat.pc \in {"client", "llm", "sleep"}

\* C15: call_llm always terminates.  It makes at most 3 attempts; before each
\* attempt every earlier one has failed and been followed by its delay, 1 s
\* after the first failure and 2 s after the second; it returns with the first
\* success and makes no attempt afterwards; it raises after the third failure.
C15_CallLlmTerminates ==
    /\ [](chat.pc # "none" =>
            /\ LlmCallBounded(chat.llm)
            /\ chat.pc = "llm" =>
                  /\ chat.llm.attempts = chat.llm.failures
                  /\ Len(chat.llm.slept) = chat.llm.failures
            /\ chat.pc = "sleep" => Len(chat.llm.slept) = chat.llm.failures - 1
            /\ \A k \in DOMAIN chat.calls :
                  LET l == chat.calls[k].call
                  IN /\ LlmCallBounded(l)
                     /\ IF chat.calls[k].returned
                        THEN l.attempts = l.failures + 1 /\ Len(l.slept) = l.failures
                        ELSE l.failures = 3 /\ l.attempts = 3 /\ l.slept = Backoff)
    /\ [][\A k \in DOMAIN chat.calls : chat'.calls[k] = chat.calls[k]]_vars
    /\ InCallLlm ~> ~InCallLlm

\* call_llm returned on its third attempt, after delays of 1 s and 2 s
C15_Witness ==
    /\ chat.pc = "dispatch"
    /\ chat.calls = <<[call |-> [attempt |-> 2, attempts |-> 3, failures |-> 2,
                                 slept |-> <<1, 2>>],
                       returned |-> TRUE]>>

\* call_llm raised after its third failure
C15_WitnessRaised ==
    /\ chat.pc = "raised" /\ chat.key
    /\ chat.calls = <<[call |-> [attempt |-> 2, attempts |-> 3, failures |-> 3,
                                 slept |-> <<1, 2>>],
                       returned |-> FALSE]>>

\* the handler has sanitized the raw reply and looked for a tag in it
Dispatched == chat.pc \in {"api", "kb", "done"} \/ Len(chat.calls) = 2

\* C16: sanitize_reply is idempotent: sanitizing the sanitized reply again
\* changes nothing, whatever markers the raw reply holds.
C16_SanitizeIdempotent ==
    (chat.pc # "none" /\ Dispatched) => sanitize_reply(chat.reply) = chat.reply

\* the pieces of fragment f stand next to each other in text t
Contains(t, f) ==
    \E i \in 1..(Len(t) - Len(f) + 1) : SubSeq(t, i, i + Len(f) - 1) = f

\* text t holds a well-formed tag: one of the tags the system prompt asks
\* for, or any other run of pieces that the pattern of a tag matches
HasWellFormedTag(t) ==
    \/ \E f \in WellFormedTags : Contains(t, f)
    \/ parse_api_call_tag(t).found
    \/ parse_search_kb_tag(t).found

\* C17: when the sanitized reply holds a well-formed SEARCH_KB or API_CALL
\* tag, the handler issues a KB search or an external API call and its reply
\* comes from the second call of the model; when it holds none, the handler
\* issues neither and returns the sanitized reply unchanged.
C17_EveryWellFormedTagDetected ==
    (chat.pc # "none" /\ Dispatched) =>
        IF HasWellFormedTag(chat.reply)
        THEN /\ chat.tool \in {"api", "kb"}
             /\ chat.pc = "done" => Len(chat.calls) = 2
        ELSE /\ chat.tool = "none" /\ chat.external.requests = 0
             /\ chat.pc = "done" /\ chat.out = chat.reply /\ Len(chat.calls) = 1

\* C17, what holds: a tag the parsers accept (an API_CALL tag, or else a
\* SEARCH_KB tag whose query is not empty) is acted on, the API call first,
\* and the reply then comes from the second call of the model; any other
\* reply is returned unchanged after one call of the model
C17_AcceptedTagActedOn ==
    (chat.pc # "none" /\ Dispatched) =>
        LET api_call == parse_api_call_tag(chat.reply)
            search == parse_search_kb_tag(chat.reply)
        IN /\ chat.tool = (IF api_call.found THEN "api"
                           ELSE IF search.found /\ search.query # <<>> THEN "kb"
                           ELSE "none")
           /\ chat.pc = "done" =>
                 Len(chat.calls) = (IF chat.tool = "none" THEN 1 ELSE 2)
           /\ (chat.pc = "done" /\ chat.tool = "none") => chat.out = chat.reply

\* the reply [SEARCH_KB: ''] came back to the user as it is
C17_EmptyQueryLeaks ==
    /\ chat.pc = "done" /\ chat.tool = "none"
    /\ chat.out = KbTag(<<>>)

\* call_external_api has returned to the handler, or raised
ExternalApiCalled == chat.pc # "none" /\ chat.outcome # "none"

\* C18: call_external_api never raises to its caller: an HTTP error status,
\* a network error, a body that is not JSON or an unsupported method gives a
\* returned dict with ok false and an error string, and a request goes out
\* for GET, POST, PUT and DELETE only.
C18_ExternalApiNeverRaises ==
    ExternalApiCalled =>
        LET supported == upper(chat.api.method) \in
                             {<<"GET">>, <<"POST">>, <<"PUT">>, <<"DELETE">>}
        IN /\ ~chat.external.raised
           /\ chat.external.requests = (IF supported THEN 1 ELSE 0)
           /\ (~supported \/ chat.outcome # "json") =>
                 /\ chat.external.result.ok = FALSE
                 /\ chat.external.result.error # "None"

\* a body that was not JSON came back for a POST with a payload, and the
\* handler went on with ok false
C18_Witness ==
    /\ ExternalApiCalled /\ chat.outcome = "not_json"
    /\ chat.api.method = <<"POST">> /\ chat.api.payload = "{}"
    /\ chat.external.requests = 1 /\ ~chat.external.result.ok
    /\ chat.pc = "done"

\* a PATCH call was refused without a request
C18_WitnessUnsupported ==
    /\ ExternalApiCalled /\ chat.api.method = <<"PATCH">>
    /\ chat.external.requests = 0 /\ ~chat.external.result.ok

\* push_chunk has returned finalized: true to voice_frames
PostFinalized == post.pc = "ret" /\ post.res.ok /\ post.res.finalized

\* C21: when push_chunk returns finalized: true, processing_active is true on
\* return if and only if respond was true and the transcript is not empty;
\* otherwise the flag is already false on return.
C21_FlagOnFinalizedReturn ==
    PostFinalized =>
        (post.s.processing_active <=> (post.respond /\ post.res.transcript # ""))

\* a finalized return with respond and a transcript: the flag is still set
C21_Witness ==
    /\ PostFinalized /\ post.respond /\ post.res.transcript = "hi"
    /\ post.s.processing_active

\* a finalized return with respond and no transcript: the flag is cleared
C21_WitnessCleared ==
    /\ PostFinalized /\ post.respond /\ post.res.transcript = ""
    /\ ~post.s.processing_active

\* t is s after a reset of its per-segment fields and of nothing else
SegmentReset(s, t) ==
    /\ t.webm_buffer = <<>> /\ t.chunk_count = 0
    /\ t.last_duration = 0 /\ t.last_conversion_time = 0
    /\ t.transcript = "None" /\ t.finalized = FALSE
    /\ t.wav_bytes = -1 /\ t.wav_audio = -1
    /\ t.webm_header = s.webm_header
    /\ t.conversation_history = s.conversation_history
    /\ t.turn_number = s.turn_number
    /\ t.processing_active = s.processing_active

\* C22: advance_segment resets every per-segment field (buffer empty,
\* chunk_count 0, last_duration 0, last_conversion_time 0, transcript None,
\* finalized false, wav_bytes and wav_audio None) and leaves the captured
\* header, conversation_history, turn_number and processing_active unchanged,
\* in a call of voice_frames and in a call of the signaling loop.
C22_AdvanceResetsSegmentOnly ==
    [][/\ (post.pc = "advance" /\ post'.pc = "ret") => SegmentReset(post.s, post'.s)
       /\ \A c \in Conns :
            (conn[c].pc = "advance" /\ conn'[c].pc = "ret") =>
                SegmentReset(sess[conn[c].obj], sess'[conn[c].obj])]_vars

\* a segment was advanced with a header captured and the flag set: the buffer
\* is empty, the header and the flag are still there
C22_Witness ==
    /\ PostFinalized /\ post.s.segment_index = 1
    /\ post.s.webm_buffer = <<>> /\ post.s.chunk_count = 0
    /\ post.s.webm_header # NoBytes /\ post.s.processing_active

\* header h was captured from chunk data: its first 8192 bytes at most, which
\* begin with the magic bytes
CapturedFrom(h, data) ==
    /\ data.magic /\ data.len >= 4
    /\ h.id = data.id /\ h.magic /\ h.len = Min(HeaderMax, data.len)

\* a step changes the header of session s (t after the step) only by
\* capturing it, when none was captured yet, from the chunk being appended
HeaderSetOnce(s, t, data) ==
    t.webm_header # s.webm_header =>
        /\ s.webm_header = NoBytes
        /\ CapturedFrom(t.webm_header, data)
        /\ t.webm_buffer = Append(s.webm_buffer, data)

\* C23: the captured header of a TurnSession is set at most once, only from a
\* chunk that begins with the magic bytes 1A 45 DF A3, is at most 8192 bytes
\* long, and once set never changes, across appended chunks and segment
\* advances.
C23_HeaderSetOnce ==
    /\ [](post.s.webm_header.len <= HeaderMax)
    /\ [](\A o \in Conns : sess[o].webm_header.len <= HeaderMax)
    /\ [][/\ HeaderSetOnce(post.s, post'.s, post'.chunk)
          /\ \A o \in Conns :
               \E c \in Conns : HeaderSetOnce(sess[o], sess'[o], conn[c].chunk)]_vars

\* a header of 8192 bytes, captured from a chunk of 9000, is still there
\* after an advance and after a later chunk that has a header of its own
C23_Witness ==
    /\ post.s.webm_header.len = HeaderMax /\ post.s.segment_index = 1
    /\ \E k \in DOMAIN post.s.webm_buffer :
         /\ post.s.webm_buffer[k].magic
         /\ post.s.webm_buffer[k].id # post.s.webm_header.id

\* the calls of push_chunk whose transcoder is running on TurnSession o
Transcoding(o) == {c \in Conns : conn[c].pc = "ffmpeg" /\ conn[c].obj = o}

\* C24: at most one transcode runs per TurnSession at a time under any
\* interleaving of concurrent callers (conversion_lock is held exactly while
\* one runs): a caller that finds conversion_lock held does not wait and does
\* not invoke the transcoder, and its push_chunk returns finalized: false,
\* state "listening".
C24_OneTranscodePerSession ==
    /\ [](\A o \in Conns :
            /\ Cardinality(Transcoding(o)) <= 1
            /\ sess[o].conversion_lock <=> Transcoding(o) # {})
    /\ [][\A c \in Conns :
            (/\ conn[c].pc = "enter" /\ conn'[c].pc # "enter"
             /\ sess[cur].conversion_lock /\ ~sess[cur].processing_active) =>
                /\ conn'[c].pc = "ret" /\ lastOps' = {}
                /\ conn'[c].res = Result(FALSE, "None", "listening")
                /\ Transcoding(cur)' = Transcoding(cur)
                /\ sess'[cur].conversion_lock]_vars

\* a caller was due for a check, found the lock held by the other caller's
\* transcode and has returned
C24_Witness ==
    \E c, b \in Conns :
        /\ c # b /\ Transcoding(conn[c].obj) = {c}
        /\ conn[b].pc = "ret" /\ conn[b].obj = conn[c].obj /\ lastOps = {}
        /\ conn[b].res = Result(FALSE, "None", "listening")
        /\ sess[conn[b].obj].chunk_count >= 2
        /\ should_check(sess[conn[b].obj], conn[b].now)
        /\ BufLen(sess[conn[b].obj].webm_buffer) >= MinBufBytes

\* the step starts the transcoder for the request to /voice/frames
TranscoderStarts == post.pc # "ffmpeg" /\ post'.pc = "ffmpeg"

\* C25: for each session the transcoder is invoked at most once per 300 ms
\* (any two invocations, successful or failed, are at least 300 ms apart) and
\* never while fewer than 500 bytes are buffered.
C25_TranscoderRateLimited ==
    [][TranscoderStarts =>
          /\ post.invoked = -1 \/ clock - post.invoked >= ThrottleT
          /\ BufLen(post'.s.webm_buffer) >= MinBufBytes]_vars

\* C25, the part that holds: the transcoder is not invoked within 300 ms of
\* the segment's last successful conversion, and never while fewer than 500
\* bytes are buffered
C25_ThrottledAfterSuccess ==
    [][TranscoderStarts =>
          /\ post.s.last_conversion_time > 0 =>
                clock - post.s.last_conversion_time >= ThrottleT
          /\ BufLen(post'.s.webm_buffer) >= MinBufBytes]_vars

\* the transcoder was invoked 200 ms after an invocation that failed
C25_InvokedAgainAfterFailure ==
    /\ post.pc = "ffmpeg" /\ post.invoked = post.now
    /\ post.s.last_conversion_time = 0 /\ post.s.segment_index = 0
    /\ post.n = 3 /\ post.s.chunk_count = 3 /\ clock = 8

\* the step is a call of push_chunk that accepts its chunk
ChunkAccepted == post'.n = post.n + 1 /\ post.started /\ ~post.s.processing_active

\* an accepted chunk starts the transcoder only if a check is due, and returns
\* "listening" with no external call made when none is due
ChecksOnlyWhenDue(due) ==
    ChunkAccepted =>
        /\ TranscoderStarts => due
        /\ ~due => /\ post'.pc = "ret" /\ post'.ops = {}
                   /\ post'.res = Result(FALSE, "None", "listening")

\* C26: for an accepted chunk, push_chunk attempts a silence check (transcode)
\* only if chunk_count is at least 2 and either chunk_count is a multiple of 4
\* or at least 500 ms have elapsed since the last check (since the segment's
\* start when the segment had no check yet); in every other case it returns
\* finalized: false, state "listening" without transcoding, VAD or ASR.
C26_CheckCadence ==
    [][ChecksOnlyWhenDue(
          LET last_check == Max(post.invoked, post.s.segment_start_time)
          IN /\ post'.s.chunk_count >= 2
             /\ \/ post'.s.chunk_count % CheckEvery = 0
                \/ clock - last_check >= CheckT)]_vars

\* C26, the part that holds: the same with the time counted from the
\* segment's last successful conversion (from the segment's start when there
\* was none)
C26_CadenceFromLastConversion ==
    [][ChecksOnlyWhenDue(post'.s.chunk_count >= 2 /\ should_check(post'.s, clock))]_vars

\* C27: after a successful transcode, if the decoded duration exceeds
\* last_duration by less than 0.5 s, push_chunk returns state "listening"
\* without running VAD and without changing last_duration; otherwise
\* last_duration is set to the new duration and VAD runs; so within a segment
\* last_duration never decreases.
C27_LastDurationNeverDecreases ==
    [][/\ (/\ post.pc = "ffmpeg" /\ post'.pc # "ffmpeg"
           /\ post'.s.last_conversion_time = post.now /\ post'.s.wav_audio # -1) =>
              IF post'.s.wav_audio - post.s.last_duration < MinNewAudio
              THEN /\ post'.pc = "ret" /\ "vad" \notin post'.ops
                   /\ post'.res = Result(FALSE, "None", "listening")
                   /\ post'.s.last_duration = post.s.last_duration
              ELSE /\ post'.s.last_duration = post'.s.wav_audio
                   /\ "vad" \in post'.ops
       /\ post'.s.segment_index = post.s.segment_index =>
              post'.s.last_duration >= post.s.last_duration]_vars

\* a conversion decoded 0.3 s after an earlier one of the segment had decoded
\* 1.0 s: VAD did not run and last_duration is still 1.0 s
C27_Witness ==
    /\ post.pc = "ret" /\ post.ops = {"transcode"}
    /\ post.s.last_conversion_time = post.now
    /\ post.s.wav_audio = 3 /\ post.s.last_duration = 10

\* C28: when VAD returns no speech segments, last_end is taken as 0 and the
\* silence is the whole decoded duration, so a check on a buffer whose
\* duration is at least min_silence_ms finalizes the segment (processing_active
\* set, ASR run, segment advanced) as it would after speech.
C28_NoSpeechFinalizes ==
    [][(/\ post.pc = "ffmpeg" /\ "no_segments" \in post'.ops
        /\ post'.s.last_duration >= DefaultMinSilence) =>
            post'.pc = "asr" /\ post'.s.processing_active]_vars

\* C28, what the code does: a check whose VAD finds no speech segment never
\* finalizes; push_chunk returns finalized: false, state "listening", with the
\* buffer kept and the flag as it was
C28_NoSpeechKeepsListening ==
    [][(post.pc = "ffmpeg" /\ "no_segments" \in post'.ops) =>
          /\ post'.pc = "ret" /\ post'.res = Result(FALSE, "None", "listening")
          /\ post'.s.webm_buffer = post.s.webm_buffer
          /\ post'.s.processing_active = post.s.processing_active
          /\ post'.s.segment_index = post.s.segment_index]_vars

\* C29: when the transcoder exits nonzero, produces empty output, times out or
\* raises (no conversion is recorded for the call), the cycle is skipped and
\* buffering continues: the audio buffer, chunk_count, the previous wav_bytes,
\* segment_index and processing_active (every field but the lock, which is
\* released) are unchanged and push_chunk returns finalized: false, state
\* "listening".
C29_FailedTranscodeSkipsCycle ==
    [][(/\ post.pc = "ffmpeg" /\ post'.pc # "ffmpeg"
        /\ post'.s.last_conversion_time # post.now) =>
            /\ post'.s = [post.s EXCEPT !.conversion_lock = FALSE]
            /\ post'.pc = "ret" /\ post'.ops = {"transcode"}
            /\ post'.res = Result(FALSE, "None", "listening")]_vars

\* the transcoder failed on a buffer of three chunks, after a conversion of the
\* same segment had succeeded: the three chunks and that conversion's WAV are
\* still there
C29_Witness ==
    /\ post.pc = "ret" /\ post.ops = {"transcode"}
    /\ post.s.last_conversion_time \notin {0, post.now}
    /\ post.s.wav_bytes = 10 /\ post.s.chunk_count = 3
    /\ Len(post.s.webm_buffer) = 3 /\ ~post.s.conversion_lock

\* C30: a frame that is not valid JSON is ignored: no frame is sent in
\* response, no TurnSession field changes, and the loop goes on to receive the
\* next frame; a playback_complete frame changes only processing_active (to
\* false, on the registered TurnSession) and sends nothing.
C30_BadJsonIgnoredPlaybackClearsFlag ==
    [][\A c \in Conns :
         /\ got' = <<c, "not_json">> =>
               /\ sent' = <<>> /\ sess' = sess
               /\ conn' = conn /\ conn'[c].pc = "recv"
               /\ cur' = cur /\ active' = active /\ tasks' = tasks
         /\ got' = <<c, "playback_complete">> =>
               /\ sent' = <<>>
               /\ sess' = [o \in Conns |->
                             IF o = cur THEN [sess[o] EXCEPT !.processing_active = FALSE]
                             ELSE sess[o]]
               /\ conn' = conn /\ conn'[c].pc = "recv"
               /\ cur' = cur /\ active' = active /\ tasks' = tasks]_vars

\* playback_complete arrived after audio_ready: the flag is cleared, the
\* conversation and the chunks buffered since are as they were
C30_Witness ==
    /\ got = <<1, "playback_complete">>
    /\ \E i \in DOMAIN tasks : tasks[i].audio = 1
    /\ ~sess[cur].processing_active
    /\ Len(sess[cur].conversation_history) = 2

\* a frame that is not JSON arrived while the session was buffering audio
C30_WitnessBadJson ==
    /\ got = <<1, "not_json">> /\ sess[cur].chunk_count > 0 /\ conn[1].pc = "recv"

\* ------------------------------------------------- the LLM's message list
\* scripted_chat_default builds the messages of the LLM call from the payload:
\* the system prompt, the last twenty history entries that have a role of
\* user or assistant and a content, the payload's content as the user message;
\* the cap keeps the first, the last and the twenty before the last
SystemMsg == Msg("system", "prompt")
is_history_message(h) == h.role \in {"user", "assistant"} /\ h.content # ""
scripted_chat_messages(payload) ==
    LET hist == SelectSeq(LastN(payload.history, HistoryCap), is_history_message)
        messages == <<SystemMsg>> \o hist \o <<Msg("user", payload.content)>>
    IN IF Len(messages) > HistoryCap + 2
       THEN <<messages[1]>>
            \o LastN(SubSeq(messages, 2, Len(messages) - 1), HistoryCap)
            \o <<messages[Len(messages)]>>
       ELSE messages

\* the payload _handle_scripted_chat_response posts for a transcript, given the
\* TurnSession after the user message was appended
scripted_chat_payload(s, transcript) ==
    [content |-> transcript, turn |-> s.turn_number, history |-> payload_history(s)]

\* seq ends with suffix
EndsWith(seq, suffix) ==
    Len(suffix) <= Len(seq) /\ LastN(seq, Len(suffix)) = suffix

\* C31 (as claimed): the message list of a voice turn's LLM call is the system
\* message, then at most 20 messages of the conversation before this turn, then
\* the turn's transcript as the user message, which so appears once, last.
C31_TranscriptOnceAndLast ==
    [][\A i \in DOMAIN tasks :
         (tasks[i].pc = "created" /\ tasks'[i].pc = "http") =>
            LET before == sess[cur].conversation_history
                msgs == scripted_chat_messages(
                            scripted_chat_payload(sess'[cur], tasks[i].transcript))
                hist == SubSeq(msgs, 2, Len(msgs) - 1)
            IN /\ msgs[1] = SystemMsg
               /\ msgs[Len(msgs)] = Msg("user", tasks[i].transcript)
               /\ Len(hist) <= HistoryCap
               /\ EndsWith(before, hist)]_vars

\* what holds of the list: system first, at most twenty between, the
\* transcript last, and the transcript once more right before the last
C31_TranscriptTwiceAtTheEnd ==
    [][\A i \in DOMAIN tasks :
         (tasks[i].pc = "created" /\ tasks'[i].pc = "http") =>
            LET msgs == scripted_chat_messages(
                            scripted_chat_payload(sess'[cur], tasks[i].transcript))
            IN /\ msgs[1] = SystemMsg
               /\ Len(msgs) <= HistoryCap + 2 /\ Len(msgs) >= 3
               /\ msgs[Len(msgs)] = Msg("user", tasks[i].transcript)
               /\ msgs[Len(msgs) - 1] = Msg("user", tasks[i].transcript)]_vars

\* the messages alternate user, assistant, user, ... from the first on
Alternates(h) ==
    \A k \in 1..Len(h) : h[k].role = IF k % 2 = 1 THEN "user" ELSE "assistant"
NumAssistant(h) == Cardinality({k \in 1..Len(h) : h[k].role = "assistant"})

\* the reply task i records a reply in this step
ReplyRecorded(i) ==
    /\ tasks[i].pc = "http" /\ tasks'[i].pc # "http"
    /\ Len(sess'[tasks[i].obj].conversation_history)
         = Len(sess[tasks[i].obj].conversation_history) + 1

\* C32 (as claimed): a reply-pipeline run that obtains a reply has appended
\* one user and one assistant message and adds 1 to turn_number, and after it
\* the history alternates user/assistant with turn_number counting the
\* assistant messages.
C32_HistoryAlternatesAfterRun ==
    [][\A i \in DOMAIN tasks :
         ReplyRecorded(i) =>
            LET h == sess'[tasks[i].obj].conversation_history
            IN /\ h[Len(h)].role = "assistant"
               /\ sess'[tasks[i].obj].turn_number = sess[tasks[i].obj].turn_number + 1
               /\ Alternates(h)
               /\ sess'[tasks[i].obj].turn_number = NumAssistant(h)]_vars

\* the part that holds of every run: the assistant message is appended last,
\* turn_number grows by one and counts the assistant messages
C32_ReplyCountedOnce ==
    [][\A i \in DOMAIN tasks :
         ReplyRecorded(i) =>
            LET h == sess'[tasks[i].obj].conversation_history
            IN /\ h[Len(h)].role = "assistant"
               /\ sess'[tasks[i].obj].turn_number = sess[tasks[i].obj].turn_number + 1
               /\ sess'[tasks[i].obj].turn_number = NumAssistant(h)]_vars

\* C35: when push_chunk ran VAD, found a speech segment and did not finalize,
\* it returns the state "recording"; "listening" is never the state of that
\* return.
C35_NotFinalizedMeansRecording ==
    (/\ post.pc = "ret" /\ "vad" \in post.ops /\ "no_segments" \notin post.ops
     /\ ~post.res.finalized) => post.res.state = "recording"

\* VAD found speech ending at 0.2 s in 1.0 s of audio: 0.8 s of silence is
\* short of the second needed, the call returns "recording"
C35_Witness ==
    /\ post.pc = "ret" /\ "vad" \in post.ops /\ "no_segments" \notin post.ops
    /\ ~post.res.finalized /\ post.res.state = "recording"
    /\ post.s.wav_audio = 10 /\ post.s.last_duration = 10

\* -------------------------------------- the lazily created clients, threads
beside_lib == <<env, clock, piper_voice, cur, sess, voice, active, conn, tasks, sent,
                lastOps, nframes, nchunks, nbad, nres, nfinal, gate, audioPending, got,
                voice_SESS, chat, post>>

\* a thread calls get_http_client or get_together_client
ClientCall(t) ==
    /\ lib.clients.thr[t].pc = "idle" /\ lib.clients.thr[t].calls < MaxCalls
    /\ \E f \in ClientKinds :
         lib' = [lib EXCEPT !.clients.thr[t] =
                    [@ EXCEPT !.pc = "check", !.fn = f, !.calls = @ + 1,
                              !.locked = FALSE]]
    /\ UNCHANGED beside_lib

ClientCheck(t) ==
    /\ lib.clients.thr[t].pc = "check"
    /\ lib' = [lib EXCEPT !.clients = get_client_check(@, t)]
    /\ UNCHANGED beside_lib

ClientAcquire(t) ==
    /\ lib.clients.thr[t].pc = "acquire"
    /\ lib.clients.lock[lib.clients.thr[t].fn] = 0
    /\ lib' = [lib EXCEPT !.clients = get_client_acquire(@, t)]
    /\ UNCHANGED beside_lib

ClientRecheck(t) ==
    /\ lib.clients.thr[t].pc = "recheck"
    /\ lib' = [lib EXCEPT !.clients = get_client_recheck(@, t)]
    /\ UNCHANGED beside_lib

ClientConstruct(t) ==
    /\ lib.clients.thr[t].pc = "construct"
    /\ lib' = [lib EXCEPT !.clients = get_client_construct(@, t)]
    /\ UNCHANGED beside_lib

ClientRelease(t) ==
    /\ lib.clients.thr[t].pc = "release"
    /\ lib' = [lib EXCEPT !.clients = get_client_release(@, t)]
    /\ UNCHANGED beside_lib

ClientReturn(t) ==
    /\ lib.clients.thr[t].pc = "return"
    /\ lib' = [lib EXCEPT !.clients = get_client_return(@, t)]
    /\ UNCHANGED beside_lib

\* a started server; TOGETHER_API_KEY is set or it is not
InitClients ==
    /\ Start(OneConnection, {"voice"}) /\ chat = NoChat /\ post = NoPost
    /\ \E key \in BOOLEAN : lib = [NoLib EXCEPT !.clients = NewClients(key)]

NextClients ==
    \E t \in Threads :
       \/ ClientCall(t) \/ ClientCheck(t) \/ ClientAcquire(t) \/ ClientRecheck(t)
       \/ ClientConstruct(t) \/ ClientRelease(t) \/ ClientReturn(t)

SpecClients == InitClients /\ [][NextClients]_vars

\* C33: under any interleaving of the callers, get_http_client and
\* get_together_client each construct at most one client, and every call that
\* returns an instance returns the same one.
C33_OneClientEver ==
    \A f \in ClientKinds :
       /\ lib.clients.made[f] <= 1
       /\ lib.clients.returned[f] \subseteq {1}
       /\ \A t \in Threads : lib.clients.thr[t].ret \in {0, -1, 1}

\* both threads found no Together client, both went for the lock, and both
\* calls returned the one instance that was made
C33_Witness ==
    /\ \A t \in Threads :
          /\ lib.clients.thr[t].pc = "idle" /\ lib.clients.thr[t].locked
          /\ lib.clients.thr[t].fn = "together" /\ lib.clients.thr[t].ret = 1
    /\ lib.clients.made["together"] = 1

\* ------------------------------------------------ the cached script config
\* configs/script.json is written (by the setup endpoints, an editor, a
\* restore): the content may change, the modification time does
ScriptWrite ==
    /\ \E f \in ScriptFiles :
         /\ f.exists /\ f.mtime # lib.script.file.mtime
         /\ lib' = [lib EXCEPT !.script.file = f, !.script.last = "write"]
    /\ UNCHANGED beside_lib

\* a handler calls _load_default_script
ScriptLoad ==
    /\ lib' = [lib EXCEPT !.script = load_default_script(@)]
    /\ UNCHANGED beside_lib

\* a started server, setup done or not yet
InitScript ==
    /\ Start(OneConnection, {"voice"}) /\ chat = NoChat /\ post = NoPost
    /\ \E f \in ScriptFiles : lib = [NoLib EXCEPT !.script = NewScript(f)]

NextScript == ScriptWrite \/ ScriptLoad

SpecScript == InitScript /\ [][NextScript]_vars

\* C34 (as claimed): after any writes, each changing the modification time up
\* or down, a call of _load_default_script returns the config parsed from the
\* file's current content; a call on an unchanged file returns the cached
\* config without reading the file.
C34_LoadReturnsCurrentContent ==
    [][(lib'.script.last = "load" /\ lib'.script.file.exists) =>
          /\ lib'.script.ret = ParsedConfig(lib'.script.file.content)
          /\ lib.script.last = "load" =>
                (~lib'.script.read /\ lib'.script.ret = lib.script.ret)]_vars

\* what holds: a call returns the current content whenever the file's
\* modification time is above that of the load the cache is from, and a call
\* on a file unchanged since a call changes nothing and reads nothing
C34_ReloadOnNewerOnly ==
    /\ (/\ lib.script.last = "load" /\ lib.script.file.exists) =>
           /\ lib.script.ret = lib.script.cache
           /\ lib.script.cache_time >= lib.script.file.mtime
           /\ lib.script.read =>
                 /\ lib.script.ret = ParsedConfig(lib.script.file.content)
                 /\ lib.script.cache_time = lib.script.file.mtime

\* voice_frames for a client that never stops posting: MaxPosts bounds the
\* requests that can change the session, and a request to a session whose
\* processing_active is set (push_chunk returns before it buffers anything) is
\* taken beyond that count
FramesPostWhileProcessing ==
    /\ post.pc = "ret" /\ post.n = env.frames
    /\ post.started /\ post.s.processing_active
    /\ \E shape \in env.shapes, respond \in BOOLEAN :
         LET data == [id |-> post.n + 1, len |-> shape.len, magic |-> shape.magic]
             r == push_enter(post.s, data, clock)
         IN post' = [post EXCEPT !.s = r.s, !.pc = r.pc, !.res = r.res, !.ops = r.ops,
                                 !.now = clock, !.chunk = data, !.respond = respond]
    /\ UNCHANGED <<clock, beside_post>>

NextFramesForever == NextFrames \/ FramesPostWhileProcessing

\* voice_frames under the scheduling of the event loop: a request that was
\* taken is handled to its response, the client goes on posting, time passes
SpecFramesFair ==
    InitFrames /\ [][NextFramesForever]_vars /\ WF_vars(NextFramesForever)

\* C36 (as claimed): on POST /voice/frames with respond=true, after a
\* finalization with a non-empty transcript processing_active is eventually
\* cleared, so that later chunks are accepted again.
C36_FlagEventuallyCleared ==
    (PostFinalized /\ post.respond /\ post.res.transcript # "")
        ~> ~post.s.processing_active

\* what holds instead: once push_chunk has returned with the flag set, no step
\* of the TURN of app/api/voice.py clears it, and every later chunk is
\* answered "speaking" without being buffered
C36_FlagStaysSet ==
    [][(post.s.processing_active /\ post.pc = "ret") =>
          /\ post'.s.processing_active
          /\ post'.pc = "ret"
          /\ post' # post =>
                /\ post'.res = Result(FALSE, "None", "speaking")
                /\ post'.s = post.s]_vars

\* a chunk posted after such a finalization was dropped
C36_WitnessDropped ==
    /\ post.pc = "ret" /\ post.s.processing_active /\ post.s.segment_index = 1
    /\ post.res = Result(FALSE, "None", "speaking") /\ post.n = MaxPosts

\* the reply task i takes a step
TaskSteps(i) == i \in DOMAIN tasks /\ tasks'[i].pc # tasks[i].pc

\* C37 (as claimed): a reply task changes processing_active only on the
\* TurnSession whose finalization created it; after a reconnect of the
\* session_id the task neither sets nor clears the flag of the new
\* TurnSession.
C37_TaskTouchesOwnSessionOnly ==
    [][\A i \in DOMAIN tasks :
         TaskSteps(i) =>
            \A o \in Conns :
               sess'[o].processing_active # sess[o].processing_active
                  => o = tasks[i].turn_obj]_vars

\* what holds: a task sets and clears the flag of the TurnSession that is
\* registered under the session_id when the step is taken
C37_TaskTouchesRegisteredSession ==
    [][\A i \in DOMAIN tasks :
         TaskSteps(i) =>
            \A o \in Conns :
               sess'[o].processing_active # sess[o].processing_active => o = cur]_vars

\* the signaling loop of connection c is running
LoopRunning(c) == conn[c].pc \notin {"none", "closed"}

\* C38 (as claimed): while a signaling loop for the session_id is running,
\* active_connections holds an entry for the session_id, also when two
\* connections of the session_id overlap and one of them closes.
C38_RunningLoopIsRegistered ==
    (\E c \in Conns : LoopRunning(c)) => active # 0

\* what holds: the entry is there until the first loop of the session_id ends
C38_RegisteredUntilFirstExit ==
    ((\E c \in Conns : LoopRunning(c)) /\ (\A c \in Conns : conn[c].pc # "closed"))
        => active # 0

C40_WitnessFailedTranscode ==
    \E c \in Conns :
        /\ conn[c].pc = "ret" /\ lastOps = {} /\ conn[c].res = Result(FALSE, "None", "listening")
        /\ sess[conn[c].obj].last_conversion_time = 0
        /\ sess[conn[c].obj].wav_bytes = -1
        /\ sess[conn[c].obj].chunk_count >= 2
        /\ BufLen(sess[conn[c].obj].webm_buffer) >= MinBufBytes
        /\ should_check(sess[conn[c].obj], conn[c].now)
        /\ ~sess[conn[c].obj].conversion_lock /\ Transcoding(conn[c].obj) = {}

\* ------------------------------------------- the ASR model registry, threads
\* a thread (a worker running push_chunk for the webrtc loop, the event loop
\* running it for /voice/frames) calls _get_model with its TurnManager's triple
AsrCall(t) ==
    /\ lib.asr.thr[t].pc = "idle" /\ lib.asr.thr[t].calls < MaxCalls
    /\ \E want \in Triples :
         lib' = [lib EXCEPT !.asr.thr[t] =
                    [@ EXCEPT !.pc = "test_model", !.want = want, !.ret = NoModel,
                              !.calls = @ + 1]]
    /\ UNCHANGED beside_lib

AsrFastPath(t) ==
    /\ lib.asr.thr[t].pc \in {"test_model", "test_path", "test_device", "test_compute_type"}
    /\ lib' = [lib EXCEPT !.asr = get_model_fast(@, t)]
    /\ UNCHANGED beside_lib

AsrReturnFast(t) ==
    /\ lib.asr.thr[t].pc = "return_fast"
    /\ lib' = [lib EXCEPT !.asr = get_model_return_fast(@, t)]
    /\ UNCHANGED beside_lib

AsrAcquire(t) ==
    /\ lib.asr.thr[t].pc = "acquire" /\ lib.asr.lock = 0
    /\ lib' = [lib EXCEPT !.asr.lock = t, !.asr.thr[t].pc = "double_check"]
    /\ UNCHANGED beside_lib

AsrDoubleCheck(t) ==
    /\ lib.asr.thr[t].pc = "double_check"
    /\ lib' = [lib EXCEPT !.asr = get_model_double_check(@, t)]
    /\ UNCHANGED beside_lib

AsrLoad(t) ==
    /\ lib.asr.thr[t].pc = "load"
    /\ \E ok \in BOOLEAN : lib' = [lib EXCEPT !.asr = get_model_load(@, t, ok)]
    /\ UNCHANGED beside_lib

AsrRecord(t) ==
    /\ lib.asr.thr[t].pc \in {"set_path", "set_device", "set_compute_type", "return_loaded"}
    /\ lib' = [lib EXCEPT !.asr = get_model_record(@, t)]
    /\ UNCHANGED beside_lib

InitAsr ==
    /\ Start(OneConnection, {"voice"}) /\ chat = NoChat /\ post = NoPost
    /\ lib = NoLib

NextAsr ==
    \E t \in Threads :
       \/ AsrCall(t) \/ AsrFastPath(t) \/ AsrReturnFast(t) \/ AsrAcquire(t)
       \/ AsrDoubleCheck(t) \/ AsrLoad(t) \/ AsrRecord(t)

SpecAsr == InitAsr /\ [][NextAsr]_vars

\* a load of thread t fails in this step
LoadFails(t) == lib.asr.thr[t].pc = "load" /\ lib'.asr.thr[t].pc = "idle"

\* C39 (as claimed): under concurrent calls with different triples, _get_model
\* never returns a model loaded with another triple than the caller's, and a
\* failed load leaves the cached model and its recorded triple as they were.
C39_ReturnsRequestedModel ==
    /\ [](\A t \in Threads :
            lib.asr.thr[t].ret # NoModel =>
               lib.asr.thr[t].ret = WhisperModel(lib.asr.thr[t].want))
    /\ [][\A t \in Threads :
            LoadFails(t) =>
               /\ lib'.asr.thr[t].ret = NoModel
               /\ lib'.asr.model = lib.asr.model
               /\ lib'.asr.model_path = lib.asr.model_path
               /\ lib'.asr.device = lib.asr.device
               /\ lib'.asr.compute_type = lib.asr.compute_type
               /\ lib'.asr.lock = 0]_vars

\* what holds: a failed load changes no global and frees the lock, and a call
\* that loaded the model itself returns the model of its triple
C39_FailedLoadKeepsCache ==
    [][\A t \in Threads :
         /\ LoadFails(t) =>
               /\ lib'.asr.thr[t].ret = NoModel
               /\ lib'.asr.model = lib.asr.model
               /\ lib'.asr.model_path = lib.asr.model_path
               /\ lib'.asr.device = lib.asr.device
               /\ lib'.asr.compute_type = lib.asr.compute_type
               /\ lib'.asr.lock = 0
         /\ (lib.asr.thr[t].pc = "return_loaded" /\ lib'.asr.thr[t].pc = "idle") =>
               lib'.asr.thr[t].ret = WhisperModel(lib.asr.thr[t].want)]_vars

====
